---- MODULE Spec2Model ----
(***************************************************************************)
(* Model of the request-safety and fetch pipeline of the AI web scraper:   *)
(* URL validation (app/utils.py validate_url), SSRF protection             *)
(* (app/utils.py check_ssrf_protection), per-domain rate limiting          *)
(* (app/scraper.py RateLimiter), the scrape orchestration                  *)
(* (app/scraper.py WebScraper.scrape_url), the fetch and the extraction    *)
(* (_scrape_with_playwright, _parse_html), the analysis                    *)
(* (app/scraper.py ContentAnalyzer.analyze) and the session handlers that  *)
(* drive them (app/ui.py process_scrape_request, process_query, Clear).    *)
(* The stand-alone script src/main.py, an application of its own with the  *)
(* same purpose, is modelled as a second program (SpecMain).               *)
(*                                                                         *)
(* Text (URLs, host names, addresses) is a sequence of one-character       *)
(* strings, so that parsing, lower-casing, prefix and substring tests are  *)
(* computed as the code computes them.  The alphabet of the URLs is        *)
(* ASCII letters, digits and the characters : / . @ [ ] ? # % + - and the  *)
(* space; tab, CR and LF do not occur in the URLs.  A query holds any of   *)
(* the characters str.isspace() is true for as well; one that has no       *)
(* escape in a string is written as its code point, "U+00A0".              *)
(***************************************************************************)
EXTENDS Integers, Sequences, FiniteSets, TLC

VARIABLES
    \* ---- st.session_state (app/ui.py initialize_session_state) ----
    scraper,        \* "None" or "WebScraper": is a scraper instance stored
    content,        \* NoDocument or the Scraped Document
    chat_history,   \* sequence of [query, response]
    current_url,    \* the URL of the current document, <<>> for ""
    error_message,  \* "None" or the kind of the error message shown
    last_query,     \* NoQuery or the query process_query was last called with,
                    \* in the script runs since the last scrape or clear
    shown,          \* what process_query showed with st.error, <<>> for nothing
    turn_current,   \* for each entry of chat_history: was it produced against
                    \* the document that is the content now
    \* ---- the RateLimiter of the scraper in use ----
    rate_limits,    \* the ledger: domain -> [last_request, delay]
    \* ---- configuration and environment ----
    default_delay,  \* config.scraper.default_rate_limit_delay
    api_key_set,    \* is GEMINI_API_KEY set in the environment
    clock,          \* time.time(), the wall clock
    monotonic,      \* the time that has passed since the process started
    \* ---- the flows of control ----
    flows,          \* the flows that exist
    pc,             \* flow -> position in the code
    caller,         \* flow -> who started the scrape attempt: "ui" or "api"
    url_arg,        \* flow -> the url argument of the scrape attempt
    domain_arg,     \* flow -> the domain argument of wait_if_needed
    current_time,   \* flow -> local current_time of wait_if_needed
    wake_at,        \* flow -> the value of monotonic at which time.sleep returns
    request_time,   \* flow -> the time.time() of line 68, before it is stored
    outcome,        \* flow -> how scrape_url ended: "ok" or the exception raised
    result,         \* flow -> the document scrape_url returned
    \* ---- observations of one scrape attempt / one call ----
    ledger_at_entry,  \* flow -> the ledger when scrape_url was entered
    resolver_calls,   \* flow -> calls of socket.getaddrinfo in this attempt
    guard_answer,     \* flow -> what the resolver did when the SSRF guard called it
    ssrf_error,       \* flow -> the reason check_ssrf_protection gave
    cleared,          \* flow -> the addresses the SSRF guard checked and cleared
    contacted,        \* flow -> the addresses the page fetch contacted
    fetches,          \* flow -> page fetches performed in this attempt
    browser,          \* flow -> the browser of the fetch: "none", "open" (launched,
                      \* close not called), "closed", "close raised"
    html,             \* flow -> the HTML page.content() returned to the fetch
    response,         \* flow -> what the provider did in generate_content
    provider_calls,   \* flow -> calls of generate_content in the query
    analysis,         \* flow -> what analyze returned or raised
    calls_done,       \* flow -> completed calls of wait_if_needed
    completions,      \* domain -> completion times of all wait_if_needed calls
    \* ---- the function harness ----
    fn_url,         \* the URL given to validate_url / check_ssrf_protection
    fn_answer,      \* the resolver's answer given to check_ssrf_protection
    fn_valid,       \* the result of validate_url(fn_url)
    fn_safe,        \* the result of check_ssrf_protection(fn_url)
    fn_html,        \* the HTML given to _parse_html
    fn_document,    \* the result of _parse_html(fn_html); the Document given
                    \* to analyze
    fn_domain,      \* the domain scrape_url gives to wait_if_needed for fn_url
    fn_limits,      \* max_content_length and max_tables given to analyze
    fn_context      \* the context analyze builds for the provider

vars == << scraper, content, chat_history, current_url, error_message,
           rate_limits, default_delay, api_key_set, clock, monotonic,
           flows, pc, caller, url_arg, domain_arg, current_time, wake_at,
           request_time, outcome,
           result,
           ledger_at_entry, resolver_calls, guard_answer, ssrf_error, cleared,
           contacted, fetches, browser, html, calls_done, completions,
           last_query, shown, turn_current, response, provider_calls, analysis,
           fn_url, fn_answer, fn_valid, fn_safe, fn_html, fn_document,
           fn_domain, fn_limits, fn_context >>

----------------------------------------------------------------------------
(* Text helpers: str methods used by the code and by urllib / ipaddress.   *)

UpperChars == <<"A","B","C","D","E","F","G","H","I","J","K","L","M","N","O","P","Q","R","S","T","U","V","W","X","Y","Z">>
LowerChars == <<"a","b","c","d","e","f","g","h","i","j","k","l","m","n","o","p","q","r","s","t","u","v","w","x","y","z">>
DigitChars == <<"0","1","2","3","4","5","6","7","8","9">>
HexChars   == <<"0","1","2","3","4","5","6","7","8","9","a","b","c","d","e","f">>

Range(s) == { s[i] : i \in 1..Len(s) }

IsAlpha(c) == c \in Range(UpperChars) \cup Range(LowerChars)
IsDigit(c) == c \in Range(DigitChars)

\* str.lower() on one character
LowerChar(c) ==
    IF c \in Range(UpperChars)
    THEN LowerChars[CHOOSE i \in 1..Len(UpperChars) : UpperChars[i] = c]
    ELSE c

\* str.lower()
Lower(s) == [ i \in 1..Len(s) |-> LowerChar(s[i]) ]

IsHex(c) == LowerChar(c) \in Range(HexChars)
HexVal(c) == (CHOOSE i \in 1..Len(HexChars) : HexChars[i] = LowerChar(c)) - 1

SetMin(S) == CHOOSE x \in S : \A y \in S : x <= y
SetMax(S) == CHOOSE x \in S : \A y \in S : x >= y

\* str.find(c, start): 1-based index of the first c at or after start, 0 if none
FindFrom(s, c, start) ==
    LET hits == { i \in start..Len(s) : s[i] = c }
    IN  IF hits = {} THEN 0 ELSE SetMin(hits)

IndexOf(s, c) == FindFrom(s, c, 1)

\* str.rfind(c): 1-based index of the last c, 0 if none
LastIndexOf(s, c) ==
    LET hits == { i \in 1..Len(s) : s[i] = c }
    IN  IF hits = {} THEN 0 ELSE SetMax(hits)

Has(s, c) == \E i \in 1..Len(s) : s[i] = c

\* str.startswith(p)
StartsWith(s, p) == Len(p) <= Len(s) /\ SubSeq(s, 1, Len(p)) = p

\* `sub in s`
Contains(s, sub) ==
    \E i \in 1..(Len(s) - Len(sub) + 1) : SubSeq(s, i, i + Len(sub) - 1) = sub

\* s.partition(c)[0] and s.partition(c)[2]
Before(s, c) == LET i == IndexOf(s, c) IN IF i = 0 THEN s ELSE SubSeq(s, 1, i - 1)
After(s, c)  == LET i == IndexOf(s, c) IN IF i = 0 THEN <<>> ELSE SubSeq(s, i + 1, Len(s))

\* s.rpartition(c)[2]
AfterLast(s, c) == LET i == LastIndexOf(s, c) IN IF i = 0 THEN s ELSE SubSeq(s, i + 1, Len(s))

\* str.lstrip of the space (the other C0 characters are not in the alphabet)
RECURSIVE LStrip(_)
LStrip(s) == IF s = <<>> \/ s[1] # " " THEN s ELSE LStrip(Tail(s))

\* str.split(c)
RECURSIVE Split(_, _)
Split(s, c) ==
    LET i == IndexOf(s, c)
    IN  IF i = 0 THEN <<s>>
        ELSE <<SubSeq(s, 1, i - 1)>> \o Split(SubSeq(s, i + 1, Len(s)), c)

----------------------------------------------------------------------------
(* ipaddress.ip_address and the classifications of the standard library,   *)
(* as used by check_ssrf_protection.                                       *)

Invalid == -1
Empty   == -2

\* ipaddress._BaseV4._parse_octet: the octet, or Invalid
RECURSIVE DecVal(_)
DecVal(s) == IF s = <<>> THEN 0
             ELSE 10 * DecVal(SubSeq(s, 1, Len(s) - 1)) + HexVal(s[Len(s)])

parse_octet(s) ==
    IF s = <<>> THEN Invalid
    ELSE IF \E i \in 1..Len(s) : ~IsDigit(s[i]) THEN Invalid
    ELSE IF Len(s) > 3 THEN Invalid
    ELSE IF s # <<"0">> /\ s[1] = "0" THEN Invalid
    ELSE IF DecVal(s) > 255 THEN Invalid
    ELSE DecVal(s)

\* ipaddress._BaseV4._ip_int_from_string: the four octets, or <<>>
ipv4_from_octets(octets) ==
    IF Len(octets) # 4 THEN <<>>
    ELSE IF \E i \in 1..4 : parse_octet(octets[i]) = Invalid THEN <<>>
    ELSE [ i \in 1..4 |-> parse_octet(octets[i]) ]
parse_ipv4(s) == IF s = <<>> THEN <<>> ELSE ipv4_from_octets(Split(s, "."))

\* ipaddress._BaseV6._parse_hextet: the hextet, Invalid, or Empty for ''
RECURSIVE HexNum(_)
HexNum(s) == IF s = <<>> THEN 0
             ELSE 16 * HexNum(SubSeq(s, 1, Len(s) - 1)) + HexVal(s[Len(s)])

parse_hextet(s) ==
    IF s = <<>> THEN Empty
    ELSE IF \E i \in 1..Len(s) : ~IsHex(s[i]) THEN Invalid
    ELSE IF Len(s) > 4 THEN Invalid
    ELSE HexNum(s)

\* ipaddress._BaseV6._ip_int_from_string: the eight hextets, or <<>> where it
\* raises AddressValueError.  The steps are operators of their own, each
\* taking what the step before it computed.
parse_hextets(parts) == [ i \in 1..Len(parts) |-> parse_hextet(parts[i]) ]

\* every hextet was parsed (Invalid and Empty are negative)
ipv6_valid(hextets) ==
    IF \E i \in 1..Len(hextets) : hextets[i] < 0 THEN <<>> ELSE hextets

\* the '::' stands for the hextets missing between the hi leading and the
\* lo trailing ones
ipv6_fill(pv, hi, lo) ==
    IF pv[1] = Empty /\ hi # 0 THEN <<>>
    ELSE IF pv[Len(pv)] = Empty /\ lo # 0 THEN <<>>
    ELSE IF 8 - (hi + lo) < 1 THEN <<>>
    ELSE ipv6_valid(SubSeq(pv, 1, hi) \o [ i \in 1..(8 - (hi + lo)) |-> 0 ]
                    \o SubSeq(pv, Len(pv) - lo + 1, Len(pv)))

\* skips: the positions of an empty part strictly inside the address
ipv6_expand(pv, skips) ==
    IF Cardinality(skips) > 1 THEN <<>>
    ELSE IF skips = {}
    THEN IF Len(pv) = 8 THEN ipv6_valid(pv) ELSE <<>>
    ELSE ipv6_fill(pv,
                   SetMin(skips) - 1 - (IF pv[1] = Empty THEN 1 ELSE 0),
                   Len(pv) - SetMin(skips) - (IF pv[Len(pv)] = Empty THEN 1 ELSE 0))

ipv6_from_hextets(pv) ==
    IF Len(pv) > 9 THEN <<>>
    ELSE ipv6_expand(pv, { i \in 2..(Len(pv) - 1) : pv[i] = Empty })

\* an IPv4 suffix becomes two hextets
ipv6_with_ipv4_suffix(parts, v4) ==
    IF v4 = <<>> THEN <<>>
    ELSE ipv6_from_hextets(parse_hextets(SubSeq(parts, 1, Len(parts) - 1))
                           \o << v4[1] * 256 + v4[2], v4[3] * 256 + v4[4] >>)

ipv6_from_parts(parts) ==
    IF Len(parts) < 3 THEN <<>>
    ELSE IF Has(parts[Len(parts)], ".")
    THEN ipv6_with_ipv4_suffix(parts, parse_ipv4(parts[Len(parts)]))
    ELSE ipv6_from_hextets(parse_hextets(parts))

parse_ipv6(s) == IF s = <<>> THEN <<>> ELSE ipv6_from_parts(Split(s, ":"))

\* IPv6Address.__init__: no '/', at most one '%' and a non-empty scope id
parse_ipv6_scoped(ip) ==
    IF Has(ip, "/") THEN <<>>
    ELSE IF Has(ip, "%") /\ (After(ip, "%") = <<>> \/ Has(After(ip, "%"), "%")) THEN <<>>
    ELSE parse_ipv6(Before(ip, "%"))

\* ipaddress.ip_address(ip): [v |-> 4, o |-> octets], [v |-> 6, h |-> hextets],
\* or [v |-> 0] where the code gets ValueError
ipv6_address(v6) == IF v6 # <<>> THEN [v |-> 6, h |-> v6] ELSE [v |-> 0]
ipv4_address_or(v4, ip) ==
    IF v4 # <<>> THEN [v |-> 4, o |-> v4] ELSE ipv6_address(parse_ipv6_scoped(ip))
ip_address(ip) == ipv4_address_or(parse_ipv4(ip), ip)

\* IPv4Address.is_private / is_loopback / is_reserved
v4_is_private(o) ==
    \/ o[1] = 0
    \/ o[1] = 10
    \/ o[1] = 127
    \/ o[1] = 169 /\ o[2] = 254
    \/ o[1] = 172 /\ o[2] \in 16..31
    \/ o[1] = 192 /\ o[2] = 0 /\ o[3] = 0 /\ o[4] \in 0..7
    \/ o[1] = 192 /\ o[2] = 0 /\ o[3] = 0 /\ o[4] \in 170..171
    \/ o[1] = 192 /\ o[2] = 0 /\ o[3] = 2
    \/ o[1] = 192 /\ o[2] = 168
    \/ o[1] = 198 /\ o[2] \in 18..19
    \/ o[1] = 198 /\ o[2] = 51 /\ o[3] = 100
    \/ o[1] = 203 /\ o[2] = 0 /\ o[3] = 113
    \/ o[1] >= 240
v4_is_loopback(o) == o[1] = 127
v4_is_reserved(o) == o[1] >= 240

\* IPv6Address.ipv4_mapped / is_private / is_loopback / is_reserved
v6_is_mapped(h) == (\A i \in 1..5 : h[i] = 0) /\ h[6] = 65535
v6_mapped(h) == << h[7] \div 256, h[7] % 256, h[8] \div 256, h[8] % 256 >>
v6_is_private(h) ==
    IF v6_is_mapped(h) THEN v4_is_private(v6_mapped(h))
    ELSE \/ (\A i \in 1..7 : h[i] = 0) /\ h[8] \in {0, 1}
         \/ h[1] = 256 /\ h[2] = 0 /\ h[3] = 0 /\ h[4] = 0
         \/ h[1] = 8193 /\ h[2] \div 512 = 0
         \/ h[1] = 8193 /\ h[2] = 2 /\ h[3] = 0
         \/ h[1] = 8193 /\ h[2] = 3512
         \/ h[1] = 8193 /\ h[2] \div 16 = 1
         \/ h[1] \div 512 = 126
         \/ h[1] \div 64 = 1018
v6_is_loopback(h) == (\A i \in 1..7 : h[i] = 0) /\ h[8] = 1
v6_is_reserved(h) ==
    \/ h[1] \div 256 \in {0, 1}
    \/ h[1] \div 512 = 1
    \/ h[1] \div 1024 = 1
    \/ h[1] \div 2048 = 1
    \/ h[1] \div 4096 = 1
    \/ h[1] \div 8192 \in 2..6
    \/ h[1] \div 4096 = 14
    \/ h[1] \div 2048 = 30
    \/ h[1] \div 1024 = 62
    \/ h[1] \div 128 = 508

\* ip_obj.is_private or ip_obj.is_loopback or ip_obj.is_reserved; FALSE where
\* ip_address raises ValueError (utils.py:109-116)
address_is_private_loopback_reserved(a) ==
    IF a.v = 4
    THEN v4_is_private(a.o) \/ v4_is_loopback(a.o) \/ v4_is_reserved(a.o)
    ELSE IF a.v = 6
    THEN v6_is_private(a.h) \/ v6_is_loopback(a.h) \/ v6_is_reserved(a.h)
    ELSE FALSE
is_private_loopback_reserved(ip) == address_is_private_loopback_reserved(ip_address(ip))

----------------------------------------------------------------------------
(* Configuration (app/config.py SecurityConfig).                           *)

max_url_length == 2048
max_query_length == 1000

allowed_schemes ==
    << <<"h","t","t","p">>, <<"h","t","t","p","s">> >>

blocked_hosts ==
    << <<"l","o","c","a","l","h","o","s","t">>,
       <<"i","n","t","e","r","n","a","l">>,
       <<"i","n","t","r","a","n","e","t">>,
       <<"c","o","r","p">>,
       <<"l","o","c","a","l">> >>

blocked_ip_prefixes ==
    << <<"1","2","7",".">>,
       <<"1","0",".">>,
       <<"1","7","2",".","1","6",".">>,
       <<"1","7","2",".","1","7",".">>,
       <<"1","7","2",".","1","8",".">>,
       <<"1","7","2",".","1","9",".">>,
       <<"1","7","2",".","2","0",".">>,
       <<"1","7","2",".","2","1",".">>,
       <<"1","7","2",".","2","2",".">>,
       <<"1","7","2",".","2","3",".">>,
       <<"1","7","2",".","2","4",".">>,
       <<"1","7","2",".","2","5",".">>,
       <<"1","7","2",".","2","6",".">>,
       <<"1","7","2",".","2","7",".">>,
       <<"1","7","2",".","2","8",".">>,
       <<"1","7","2",".","2","9",".">>,
       <<"1","7","2",".","3","0",".">>,
       <<"1","7","2",".","3","1",".">>,
       <<"1","9","2",".","1","6","8",".">>,
       <<"0",".">>,
       <<"1","6","9",".","2","5","4",".">>,
       <<":",":","1">>,
       <<"f","c","0","0",":">>,
       <<"f","e","8","0",":">> >>

----------------------------------------------------------------------------
(* urllib.parse.urlparse, as far as the code uses its result: scheme,      *)
(* netloc and hostname, and the ValueError it raises.                      *)

scheme_chars == Range(UpperChars) \cup Range(LowerChars) \cup Range(DigitChars)
                \cup {"+", "-", "."}

\* urllib.parse._check_bracketed_host: TRUE iff it does not raise
check_bracketed_host(hostname) ==
    IF StartsWith(hostname, <<"v">>)
    THEN \* re.match(r"\Av[a-fA-F0-9]+\..+\Z", hostname)
         \E k \in 1..(Len(hostname) - 3) :
             /\ \A j \in 2..(k + 1) : IsHex(hostname[j])
             /\ hostname[k + 2] = "."
    ELSE ip_address(hostname).v = 6

\* urlparse(url): [ok, scheme, netloc]; ok = FALSE where it raises ValueError.
\* The steps of urlsplit are operators of their own, each taking what the
\* step before it computed.

\* the netloc is malformed: unbalanced brackets or a bad bracketed host
netloc_raises(netloc) ==
    \/ Has(netloc, "[") /\ ~Has(netloc, "]")
    \/ Has(netloc, "]") /\ ~Has(netloc, "[")
    \/ /\ Has(netloc, "[") /\ Has(netloc, "]")
       /\ ~check_bracketed_host(Before(After(netloc, "["), "]"))

ParseResult(scheme, netloc) ==
    [ok |-> ~netloc_raises(netloc), scheme |-> scheme, netloc |-> netloc]

\* _splitnetloc(url, 2): where the netloc ends
splitnetloc_end(url2) ==
    LET wdelims == { FindFrom(url2, c, 3) : c \in {"/", "?", "#"} } \ {0}
    IN  IF wdelims = {} THEN Len(url2) + 1 ELSE SetMin(wdelims)

\* url2 is the URL after its scheme
split_netloc(scheme, url2) ==
    ParseResult(scheme,
                IF Len(url2) >= 2 /\ url2[1] = "/" /\ url2[2] = "/"
                THEN SubSeq(url2, 3, splitnetloc_end(url2) - 1)
                ELSE <<>>)

\* i is url1.find(':')
has_scheme(url1, i) ==
    /\ i > 1
    /\ IsAlpha(url1[1])
    /\ \A k \in 1..(i - 1) : url1[k] \in scheme_chars

split_scheme(url1, i) ==
    split_netloc(IF has_scheme(url1, i) THEN Lower(SubSeq(url1, 1, i - 1)) ELSE <<>>,
                 IF has_scheme(url1, i) THEN SubSeq(url1, i + 1, Len(url1)) ELSE url1)

urlsplit(url1) == split_scheme(url1, IndexOf(url1, ":"))

urlparse(url0) == urlsplit(LStrip(url0))

\* ParseResult.hostname for a netloc; <<>> stands for None
hostname_lower(hostname) ==
    IF hostname = <<>> THEN <<>>
    ELSE IF Has(hostname, "%")
    THEN Lower(Before(hostname, "%")) \o <<"%">> \o After(hostname, "%")
    ELSE Lower(hostname)

hostinfo_hostname(hostinfo) ==
    hostname_lower(IF Has(hostinfo, "[")
                   THEN Before(After(hostinfo, "["), "]")
                   ELSE Before(hostinfo, ":"))

hostname_of(netloc) == hostinfo_hostname(AfterLast(netloc, "@"))

----------------------------------------------------------------------------
(* app/utils.py validate_url                                               *)

Ok == [ok |-> TRUE, error |-> "None"]
Err(reason) == [ok |-> FALSE, error |-> reason]

\* the hostname contains a blocked substring (utils.py:64-67)
validate_url_blocked(hostname) ==
    \E i \in 1..Len(blocked_hosts) : Contains(Lower(hostname), blocked_hosts[i])

\* the checks on the parsed URL (utils.py:51-67)
validate_parsed_scheme_last(parsed) ==
    IF ~parsed.ok THEN Err("Invalid URL format")
    ELSE IF parsed.netloc = <<>> THEN Err("URL must include a host")
    ELSE IF validate_url_blocked(hostname_of(parsed.netloc))
    THEN Err("Access to host is not allowed")
    ELSE IF \A i \in 1..Len(allowed_schemes) : parsed.scheme # allowed_schemes[i]
    THEN Err("URL scheme must be one of")
    ELSE Ok
validate_parsed_host_unchecked(parsed) ==
    IF ~parsed.ok THEN Err("Invalid URL format")
    ELSE IF \A i \in 1..Len(allowed_schemes) : parsed.scheme # allowed_schemes[i]
    THEN Err("URL scheme must be one of")
    ELSE Ok
validate_parsed(parsed) ==
    IF ~parsed.ok THEN Err("Invalid URL format")
    ELSE IF \A i \in 1..Len(allowed_schemes) : parsed.scheme # allowed_schemes[i]
    THEN Err("URL scheme must be one of")
    ELSE IF parsed.netloc = <<>> THEN Err("URL must include a host")
    ELSE IF validate_url_blocked(hostname_of(parsed.netloc))
    THEN Err("Access to host is not allowed")
    ELSE Ok

validate_url(url) ==
    IF url = <<>> THEN Err("URL cannot be empty")
    ELSE IF Len(url) > max_url_length THEN Err("URL exceeds maximum length")
    ELSE validate_parsed(urlparse(url))

----------------------------------------------------------------------------
(* app/utils.py check_ssrf_protection                                      *)

\* The answers of socket.getaddrinfo: [kind |-> "ok", addrs |-> the sockaddr[0]
\* of the entries, in order], [kind |-> "gaierror"], or [kind |-> "error"] for
\* any other exception of the call.
Resolved(addrs) == [kind |-> "ok", addrs |-> addrs]
GaiError == [kind |-> "gaierror", addrs |-> <<>>]
OtherError == [kind |-> "error", addrs |-> <<>>]

\* any(ip.startswith(prefix) for prefix in blocked_ip_prefixes) (utils.py:102-106)
prefix_blocked(ip) ==
    \E i \in 1..Len(blocked_ip_prefixes) : StartsWith(ip, blocked_ip_prefixes[i])

\* the verdict of the loop body on one address (utils.py:99-116)
check_address(ip) ==
    IF prefix_blocked(ip)
    THEN Err("Access to internal network addresses is not allowed")
    ELSE IF is_private_loopback_reserved(ip)
    THEN Err("Access to private network addresses is not allowed")
    ELSE Ok

\* the loop over the resolved addresses (utils.py:98-118)
check_addresses_first_only(addrs) ==
    IF addrs = <<>> THEN Ok ELSE check_address(addrs[1])
first_failure(addrs, failing) ==
    IF failing = {} THEN Ok ELSE check_address(addrs[SetMin(failing)])
check_addresses(addrs) ==
    first_failure(addrs, { i \in 1..Len(addrs) : ~check_address(addrs[i]).ok })

\* does check_ssrf_protection(url) call the resolver (utils.py:85-93)
parsed_has_hostname(parsed) == parsed.ok /\ hostname_of(parsed.netloc) # <<>>
calls_resolver(url) == parsed_has_hostname(urlparse(url))

\* check_ssrf_protection(url), `answer` being what socket.getaddrinfo does
\* when it is called
check_parsed_fail_open(parsed, answer) ==
    IF ~parsed.ok THEN Err("Security check failed")
    ELSE IF hostname_of(parsed.netloc) = <<>>
    THEN Err("Cannot resolve hostname from URL")
    ELSE IF answer.kind = "gaierror" THEN Ok
    ELSE IF answer.kind = "error" THEN Err("Security check failed")
    ELSE check_addresses(answer.addrs)
check_parsed(parsed, answer) ==
    IF ~parsed.ok THEN Err("Security check failed")
    ELSE IF hostname_of(parsed.netloc) = <<>>
    THEN Err("Cannot resolve hostname from URL")
    ELSE IF answer.kind = "gaierror" THEN Err("Cannot resolve hostname")
    ELSE IF answer.kind = "error" THEN Err("Security check failed")
    ELSE check_addresses(answer.addrs)
check_ssrf_protection(url, answer) == check_parsed(urlparse(url), answer)

----------------------------------------------------------------------------
(* Bounds of the model and the inputs drawn from them.                     *)

NumFlows  == 2    \* concurrent callers of one RateLimiter
MaxCalls  == 2    \* calls of wait_if_needed per caller
MaxDelay  == 2    \* RATE_LIMIT_DELAY ranges over 1..MaxDelay clock units
MaxTicks  == 2    \* the clock runs from StartTime to StartTime + MaxTicks
MaxAddrs  == 2    \* addresses in one answer of the resolver
StartTime == 10   \* time.time() when the process starts; above every delay
MaxSessionTicks == 1    \* the clock of a session runs to StartTime + MaxSessionTicks
MaxTurns  == 2    \* queries answered about one document
MaxLimit  == 2    \* max_content_length and max_tables range over 0..MaxLimit
MaxParts  == 3    \* characters of text and tables of a document given to analyze

\* A URL of n characters: prefix followed by a's
Padded(prefix, n) == prefix \o [ i \in 1..(n - Len(prefix)) |-> "a" ]

\* The URLs given to scrape attempts: one or two per way of failing, and
\* three that pass validation and can pass the SSRF guard, on two domains.
ScrapeUrls ==
    { <<>>,
      Padded(<<"h","t","t","p",":","/","/","a",".","c","o","m","/">>, max_url_length + 1),
      <<"f","t","p",":","/","/","a",".","c","o","m","/">>,
      <<"h","t","t","p",":","/","/","/","p">>,
      <<"h","t","t","p",":","/","/","[","a">>,
      <<"h","t","t","p",":","/","/","L","o","c","a","l","H","o","s","t","/">>,
      <<"h","t","t","p",":","/","/",":","8","0","/">>,
      <<"h","t","t","p",":","/","/","1","0",".","0",".","0",".","5","/","a","d","m","i","n">>,
      <<"h","t","t","p",":","/","/","a",".","c","o","m","/">>,
      <<"h","t","t","p",":","/","/","a",".","c","o","m","/","p">>,
      <<"h","t","t","p","s",":","/","/","b",".","o","r","g",":","8","0","/">> }

\* The URLs given to validate_url and check_ssrf_protection called on their
\* own: every combination of the parts below, and the boundary cases.
UrlSchemes == { <<"h","t","t","p",":","/","/">>, <<"H","T","T","P","S",":","/","/">>,
                <<"f","t","p",":","/","/">>, <<"h","t","t","p",":">>,
                <<" ","h","t","t","p",":","/","/">>, <<>> }
UrlUsers   == { <<>>, <<"u","@">> }
UrlHosts   == { <<>>, <<"a",".","c","o","m">>, <<"L","o","c","a","l","H","o","s","t">>,
                <<"m","y","c","o","r","p",".","i","o">>, <<"X",".","I","n","t","e","r","n","a","l">>,
                <<"1","0",".","0",".","0",".","5">>, <<"8",".","8",".","8",".","8">>,
                <<"[",":",":","1","]">>, <<"[","a">>,
                <<"1","2","7",".","1">>,
                <<"[","0",":","0",":","0",":","0",":","0",":","0",":","0",":","1","]">>,
                <<"[","f","f","0","1",":",":","1","%","l","o","]">> }
UrlPorts   == { <<>>, <<":","8","0">> }
UrlPaths   == { <<>>, <<"/","p">> }

FnUrls ==
    { s \o u \o h \o p \o q :
        s \in UrlSchemes, u \in UrlUsers, h \in UrlHosts, p \in UrlPorts, q \in UrlPaths }
    \cup { Padded(<<"h","t","t","p",":","/","/","a",".","c","o","m","/">>, max_url_length),
           Padded(<<"h","t","t","p",":","/","/","a",".","c","o","m","/">>, max_url_length + 1),
           Padded(<<"f","t","p",":","/","/","L","o","c","a","l","/">>, max_url_length + 1) }

\* The addresses a resolver answers with: public IPv4 and IPv6, private with
\* a blocked prefix, private without one (fd00::/8), reserved without one.
AddrPool == { <<"9","3",".","1","8","4",".","2","1","6",".","3","4">>,
              <<"2","6","0","6",":","4","7","0","0",":",":","1","1","1","1">>,
              <<"1","0",".","0",".","0",".","5">>,
              <<"f","d","0","0",":",":","1">>,
              <<"2","4","0",".","0",".","0",".","1">> }

AddrLists == UNION { [ 1..n -> AddrPool ] : n \in 1..MaxAddrs }

\* host.encode('idna'), which socket.getaddrinfo applies to a str host: every
\* label but the last is 1..63 characters long, the last one at most 63;
\* otherwise UnicodeError (encodings/idna.py)
idna_fails(labels) ==
    \/ \E i \in 1..(Len(labels) - 1) : Len(labels[i]) = 0 \/ Len(labels[i]) > 63
    \/ Len(labels[Len(labels)]) > 63

\* strtoul(digits, base): the value as << high 16 bits, low 16 bits >>, or
\* <<>> when it does not fit in 32 bits
strtoul_carry(high, low) ==
    IF high + low \div 65536 >= 65536 THEN <<>>
    ELSE << high + low \div 65536, low % 65536 >>
strtoul_add(v, base, digit) ==
    IF v = <<>> THEN <<>> ELSE strtoul_carry(v[1] * base, v[2] * base + digit)
RECURSIVE strtoul(_, _)
strtoul(digits, base) ==
    IF digits = <<>> THEN << 0, 0 >>
    ELSE strtoul_add(strtoul(SubSeq(digits, 1, Len(digits) - 1), base), base,
                     HexVal(digits[Len(digits)]))

\* one part of an inet_aton address: decimal, octal with a leading 0 or
\* hexadecimal with 0x, as strtoul with base 0 reads it; <<>> when the part is
\* not a number to its end
aton_number(digits, base) ==
    IF digits = <<>> THEN <<>>
    ELSE IF \E i \in 1..Len(digits) : ~IsHex(digits[i]) THEN <<>>
    ELSE IF \E i \in 1..Len(digits) : HexVal(digits[i]) >= base THEN <<>>
    ELSE strtoul(digits, base)
aton_part(part) ==
    IF Len(part) > 2 /\ part[1] = "0" /\ LowerChar(part[2]) = "x"
    THEN aton_number(SubSeq(part, 3, Len(part)), 16)
    ELSE IF Len(part) > 1 /\ part[1] = "0" THEN aton_number(part, 8)
    ELSE aton_number(part, 10)

\* inet_aton: one to four parts, the last one filling the bytes that are left;
\* the four octets, or <<>> when the text is no such address
aton_octets(values, n) ==
    IF \E i \in 1..n : values[i] = <<>> THEN <<>>
    ELSE IF \E i \in 1..(n - 1) : values[i][1] # 0 \/ values[i][2] > 255 THEN <<>>
    ELSE IF n = 4 /\ (values[4][1] # 0 \/ values[4][2] > 255) THEN <<>>
    ELSE IF n = 3 /\ values[3][1] # 0 THEN <<>>
    ELSE IF n = 2 /\ values[2][1] > 255 THEN <<>>
    ELSE [ i \in 1..(n - 1) |-> values[i][2] ]
         \o SubSeq(<< values[n][1] \div 256, values[n][1] % 256,
                      values[n][2] \div 256, values[n][2] % 256 >>, n, 4)
inet_aton(parts) ==
    IF Len(parts) > 4 THEN <<>>
    ELSE aton_octets([ i \in 1..Len(parts) |-> aton_part(parts[i]) ], Len(parts))

\* the text of a number in the base given, in lower case
RECURSIVE NumText(_, _)
NumText(n, base) ==
    IF n < base THEN << HexChars[n + 1] >>
    ELSE NumText(n \div base, base) \o << HexChars[(n % base) + 1] >>

\* inet_ntop(AF_INET)
inet_ntop4(o) ==
    NumText(o[1], 10) \o <<".">> \o NumText(o[2], 10) \o <<".">>
        \o NumText(o[3], 10) \o <<".">> \o NumText(o[4], 10)

\* inet_ntop(AF_INET6): the first longest run of two or more zero hextets is
\* written '::'; an address of six zero hextets, or of five followed by
\* ffff, ends with its last 32 bits in dotted form
RECURSIVE ZeroRun(_, _)
ZeroRun(h, i) == IF i > 8 THEN 0 ELSE IF h[i] # 0 THEN 0 ELSE 1 + ZeroRun(h, i + 1)
RECURSIVE JoinHex(_, _, _)
JoinHex(h, from, to) ==
    IF from > to THEN <<>>
    ELSE NumText(h[from], 16) \o (IF from < to THEN <<":">> ELSE <<>>)
         \o JoinHex(h, from + 1, to)
inet_ntop6_run(h, base, len) ==
    IF len < 2 THEN JoinHex(h, 1, 8)
    ELSE IF base = 1 /\ len = 6 THEN <<":",":">> \o inet_ntop4(v6_mapped(h))
    ELSE IF base = 1 /\ len = 5 /\ h[6] = 65535
    THEN <<":",":","f","f","f","f",":">> \o inet_ntop4(v6_mapped(h))
    ELSE JoinHex(h, 1, base - 1) \o <<":",":">> \o JoinHex(h, base + len, 8)
inet_ntop6_best(h, len) ==
    inet_ntop6_run(h, SetMin({ i \in 1..8 : ZeroRun(h, i) = len }), len)
inet_ntop6(h) == inet_ntop6_best(h, SetMax({ ZeroRun(h, i) : i \in 1..8 }))

\* the scope id of an IPv6 literal (glibc __inet6_scopeid_pton): a number
\* of 32 bits is taken as it is; a name is looked up among the interfaces
\* of the machine, and only for a link-local address (fe80::/10) and for a
\* multicast address of interface-local or link-local scope (ffx1::, ffx2::)
scope_is_number(scope) ==
    /\ scope # <<>>
    /\ \A i \in 1..Len(scope) : IsDigit(scope[i])
    /\ strtoul(scope, 10) # <<>>
v6_is_link_local(h) ==
    \/ h[1] \div 64 = 1018
    \/ h[1] \div 256 = 255 /\ h[1] % 16 \in { 1, 2 }
getaddrinfo_scoped(h, scope) ==
    IF scope_is_number(scope) THEN { Resolved(<< inet_ntop6(h) >>) }
    ELSE IF v6_is_link_local(h) THEN { Resolved(<< inet_ntop6(h) >>), GaiError }
    ELSE { GaiError }

\* What socket.getaddrinfo(hostname, None) can do.  A numeric host is not
\* looked up: the answer is the address in the text inet_ntop gives it.
\* A name gets whatever the resolver answers now.
getaddrinfo_v6(hostname, v6) ==
    IF v6 = <<>>
    THEN { Resolved(l) : l \in AddrLists } \cup { GaiError, OtherError }
    ELSE IF Has(hostname, "%") THEN getaddrinfo_scoped(v6, After(hostname, "%"))
    ELSE { Resolved(<< inet_ntop6(v6) >>) }
getaddrinfo_v4(hostname, v4) ==
    IF v4 # <<>> THEN { Resolved(<< inet_ntop4(v4) >>) }
    ELSE getaddrinfo_v6(hostname, parse_ipv6_scoped(hostname))
getaddrinfo(hostname) ==
    IF idna_fails(Split(hostname, ".")) THEN { OtherError }
    ELSE getaddrinfo_v4(hostname, inet_aton(Split(hostname, ".")))

NotCalled == [kind |-> "not called", addrs |-> <<>>]

\* The HTML a page can have, as html.parser sees it: the <title> element is
\* absent, holds child elements ("markup") or holds the text given; each of
\* the two <meta> elements is absent, has no content attribute
\* ("no_content") or has the content given; text is the joined text of
\* the text elements, links the href values, tables the texts of the tables
Html(title, text, links, description, keywords, tables) ==
    [ title |-> title, text |-> text, links |-> links,
      description |-> description, keywords |-> keywords, tables |-> tables ]

\* no HTML was read
NoHtml == [ title |-> "none" ]

\* the session holds no document
NoDocument == [ document |-> FALSE ]

\* process_query has not been called since the last scrape or clear
NoQuery == [ submitted |-> FALSE ]

\* nothing is shown with st.error
NothingShown == <<>>

\* analyze has not returned
NoAnalysis ==
    [ ok |-> FALSE, type |-> "None", text |-> "None", error |-> "pending",
      detail |-> "None" ]

\* tag['content'] of a tag without that attribute (bs4 Tag.__getitem__)
KeyError == [ document |-> FALSE, raised |-> "KeyError" ]

\* soup.title.string if soup.title else '' (scraper.py:278); .string is None
\* when the element does not hold exactly one string
title_string(h) ==
    IF h.title = "absent" THEN ""
    ELSE IF h.title = "markup" THEN "None" ELSE h.title

\* tag['content'] if tag else '' (scraper.py:282-283)
tag_content(tag) == IF tag = "absent" THEN "" ELSE tag

\* WebScraper._parse_html (scraper.py:250-286): the Scraped Document of the
\* HTML, or the KeyError of a <meta> element without a content attribute
parse_html(h) ==
    IF h.description = "no_content" \/ h.keywords = "no_content"
    THEN KeyError
    ELSE [ document |-> TRUE,
           title |-> title_string(h),
           text |-> h.text,
           links |-> h.links,
           metadata |-> [ description |-> tag_content(h.description),
                          keywords |-> tag_content(h.keywords) ],
           tables |-> h.tables ]

\* The pages a fetch can read
Pages ==
    { Html("Title", <<"o","n","e">>, <<"/a">>, "Description", "Keywords", <<"t">>),
      Html("absent", <<"t","w","o"," ","2">>, <<>>, "absent", "absent", <<>>),
      Html("Title", <<"t","h","r","e","e">>, <<>>, "no_content", "absent", <<>>) }

\* The queries given to process_query: empty, of white space only (a space,
\* a tab, CR LF, a no-break space after a form feed), of the maximum length
\* and one character longer
Queries ==
    { <<>>, <<" ">>, <<"\t">>, <<"\r","\n">>, <<"\f","U+00A0">>,
      Padded(<<"q">>, max_query_length), Padded(<<"q">>, max_query_length + 1) }

\* What generate_content can do: return a response with text, with a block
\* reason or without text, or raise one of the two exceptions analyze names
\* or another one
ProviderBehaviours ==
    { "text", "block_reason", "no_text",
      "BlockedPromptException", "StopCandidateException", "Exception" }

\* The URLs scraped in a session with queries: one that can be fetched and
\* one that the validator rejects
SessionUrls ==
    { <<"h","t","t","p",":","/","/","a",".","c","o","m","/">>,
      <<"f","t","p",":","/","/","a",".","c","o","m","/">> }

\* The domains given to wait_if_needed called on its own
Domains == { <<"a",".","c","o","m">>, <<"b",".","o","r","g",":","8","0">> }

----------------------------------------------------------------------------
(* State                                                                   *)

sessionVars == << scraper, content, chat_history, current_url, error_message >>
envVars     == << default_delay, api_key_set, flows >>
waitVars    == << domain_arg, current_time, wake_at, request_time >>
clocks      == << clock, monotonic >>
attemptVars == << caller, url_arg, outcome, result, ledger_at_entry, resolver_calls,
                  guard_answer,
                  ssrf_error, cleared, contacted, fetches, browser, html >>
limiterObs  == << calls_done, completions >>
queryVars   == << last_query, shown, turn_current, response, provider_calls, analysis >>
fnMore      == << fn_domain, fn_limits, fn_context >>
fnVars      == << fn_url, fn_answer, fn_valid, fn_safe, fn_html, fn_document, fnMore >>

\* RateLimiter.__init__: an empty defaultdict
NoEntries == [ d \in {} |-> [last_request |-> 0, delay |-> 0] ]

\* the default_factory of rate_limits (scraper.py:47-49)
DefaultEntry == [last_request |-> 0, delay |-> default_delay]

\* self.rate_limits[domain]: reading a missing key stores the default entry
Touched(ledger, domain) ==
    IF domain \in DOMAIN ledger THEN ledger ELSE ledger @@ (domain :> DefaultEntry)

InitBase(the_flows) ==
    /\ scraper = "None"
    /\ content = NoDocument
    /\ chat_history = <<>>
    /\ current_url = <<>>
    /\ error_message = "None"
    /\ last_query = NoQuery
    /\ shown = NothingShown
    /\ turn_current = <<>>
    /\ rate_limits = NoEntries
    /\ clock = StartTime
    /\ monotonic = 0
    /\ flows = the_flows
    /\ pc = [ f \in the_flows |-> "idle" ]
    /\ caller = [ f \in the_flows |-> "none" ]
    /\ url_arg = [ f \in the_flows |-> <<>> ]
    /\ domain_arg = [ f \in the_flows |-> <<>> ]
    /\ current_time = [ f \in the_flows |-> 0 ]
    /\ wake_at = [ f \in the_flows |-> 0 ]
    /\ request_time = [ f \in the_flows |-> 0 ]
    /\ outcome = [ f \in the_flows |-> "none" ]
    /\ result = [ f \in the_flows |-> NoDocument ]
    /\ ledger_at_entry = [ f \in the_flows |-> NoEntries ]
    /\ resolver_calls = [ f \in the_flows |-> 0 ]
    /\ guard_answer = [ f \in the_flows |-> "not called" ]
    /\ ssrf_error = [ f \in the_flows |-> "None" ]
    /\ cleared = [ f \in the_flows |-> {} ]
    /\ contacted = [ f \in the_flows |-> {} ]
    /\ fetches = [ f \in the_flows |-> 0 ]
    /\ browser = [ f \in the_flows |-> "none" ]
    /\ html = [ f \in the_flows |-> NoHtml ]
    /\ response = [ f \in the_flows |-> "none" ]
    /\ provider_calls = [ f \in the_flows |-> 0 ]
    /\ analysis = [ f \in the_flows |-> NoAnalysis ]
    /\ calls_done = [ f \in the_flows |-> 0 ]
    /\ completions = [ d \in Domains |-> <<>> ]

\* validate_url / check_ssrf_protection not called yet
Pending == [ok |-> FALSE, error |-> "pending"]

\* scrape_url has not computed a domain
NoDomain == << "None" >>

\* analyze has not built a context
NoContext == [ built |-> FALSE ]

FnMoreUnused ==
    /\ fn_domain = NoDomain
    /\ fn_limits = [ max_content_length |-> 0, max_tables |-> 0 ]
    /\ fn_context = NoContext

FnUnused ==
    /\ fn_url = <<>>
    /\ fn_answer = NotCalled
    /\ fn_valid = Pending
    /\ fn_safe = Pending
    /\ fn_html = NoHtml
    /\ fn_document = NoDocument
    /\ FnMoreUnused

\* the session of the application: one script run at a time
Init ==
    /\ InitBase({"session"})
    /\ default_delay \in 1..MaxDelay
    /\ api_key_set \in BOOLEAN
    /\ FnUnused

----------------------------------------------------------------------------
(* app/scraper.py RateLimiter.wait_if_needed, in the steps between which   *)
(* another flow can run and time can pass: the reading of the clock (line  *)
(* 58), the reading of the entry (59-63) with the factory of a missing     *)
(* entry (47-49), the sleep (66), the reading of the clock on line 68 and  *)
(* the store of line 68.                                                   *)

\* time_since_last < delay (scraper.py:59-62)
must_sleep(now, entry) == now - entry.last_request < entry.delay

\* sleep_time = delay - time_since_last (scraper.py:63)
sleep_time_since_last(now, entry) == now - entry.last_request
sleep_time(now, entry) == entry.delay - (now - entry.last_request)

\* current_time = time.time() (scraper.py:58)
wait_if_needed_time(f) ==
    /\ pc[f] = "wait_time"
    /\ current_time' = [current_time EXCEPT ![f] = clock]
    /\ pc' = [pc EXCEPT ![f] = "wait_read"]
    /\ UNCHANGED << sessionVars, envVars, queryVars, clocks, rate_limits, domain_arg,
                    wake_at, request_time, attemptVars, limiterObs, fnVars >>

\* self.rate_limits[domain]['last_request'] (scraper.py:59-60): the value
\* the call computes time_since_last from
last_request_shared_timer(ledger, domain) ==
    SetMax({ ledger[d].last_request : d \in DOMAIN ledger })
last_request(ledger, domain) == ledger[domain].last_request

\* the entry the call decides on: its last_request and the delay of the
\* domain (scraper.py:59-63)
entry_read(ledger, domain) ==
    [ last_request |-> last_request(ledger, domain), delay |-> ledger[domain].delay ]

\* time_since_last is compared with the delay and time.sleep is entered
\* when it is due (scraper.py:59-66), the ledger being `ledger` now
wait_if_needed_decide(f, ledger) ==
    /\ rate_limits' = ledger
    /\ IF must_sleep(current_time[f], entry_read(ledger, domain_arg[f]))
       THEN /\ wake_at' = [wake_at EXCEPT
                             ![f] = monotonic + sleep_time(current_time[f],
                                                           entry_read(ledger, domain_arg[f]))]
            /\ pc' = [pc EXCEPT ![f] = "wait_sleep"]
       ELSE /\ wake_at' = [wake_at EXCEPT ![f] = monotonic]
            /\ pc' = [pc EXCEPT ![f] = "wait_stamp"]

\* the entry is looked up (scraper.py:59): it is there and the sleep is
\* decided, or it is missing and defaultdict.__missing__ calls the factory
\* (scraper.py:47-49), Python code during which other flows run
wait_if_needed_read(f) ==
    /\ pc[f] = "wait_read"
    /\ IF domain_arg[f] \in DOMAIN rate_limits
       THEN wait_if_needed_decide(f, rate_limits)
       ELSE /\ pc' = [pc EXCEPT ![f] = "wait_missing"]
            /\ UNCHANGED << rate_limits, wake_at >>
    /\ UNCHANGED << sessionVars, envVars, queryVars, clocks, domain_arg, current_time,
                    request_time, attemptVars, limiterObs, fnVars >>

\* the factory has returned: __missing__ stores the new entry under the key,
\* in the place of an entry another flow has stored since the miss, and the
\* sleep is decided on the new entry
wait_if_needed_missing(f) ==
    /\ pc[f] = "wait_missing"
    /\ wait_if_needed_decide(f, [ d \in DOMAIN rate_limits \cup { domain_arg[f] } |->
                                    IF d = domain_arg[f] THEN DefaultEntry
                                    ELSE rate_limits[d] ])
    /\ UNCHANGED << sessionVars, envVars, queryVars, clocks, domain_arg, current_time,
                    request_time, attemptVars, limiterObs, fnVars >>

\* time.sleep(sleep_time) returns once sleep_time has passed (scraper.py:66)
wait_if_needed_sleep(f) ==
    /\ pc[f] = "wait_sleep"
    /\ monotonic >= wake_at[f]
    /\ pc' = [pc EXCEPT ![f] = "wait_stamp"]
    /\ UNCHANGED << sessionVars, envVars, queryVars, clocks, rate_limits, waitVars,
                    attemptVars, limiterObs, fnVars >>

\* the time.time() of line 68, evaluated before the entry is looked up
wait_if_needed_stamp(f) ==
    /\ pc[f] = "wait_stamp"
    /\ request_time' = [request_time EXCEPT ![f] = clock]
    /\ pc' = [pc EXCEPT ![f] = "wait_write"]
    /\ UNCHANGED << sessionVars, envVars, queryVars, clocks, rate_limits, domain_arg,
                    current_time, wake_at, attemptVars, limiterObs, fnVars >>

\* self.rate_limits[domain]['last_request'] = (the time read), and the return
wait_if_needed_write_skipped(f) ==
    /\ pc[f] = "wait_write"
    /\ rate_limits' = Touched(rate_limits, domain_arg[f])
    /\ current_time' = [current_time EXCEPT ![f] = 0]
    /\ wake_at' = [wake_at EXCEPT ![f] = 0]
    /\ request_time' = [request_time EXCEPT ![f] = 0]
    /\ IF caller[f] = "limiter"
       THEN /\ pc' = [pc EXCEPT ![f] = "idle"]
            /\ calls_done' = [calls_done EXCEPT ![f] = @ + 1]
            /\ completions' = [completions EXCEPT
                                 ![domain_arg[f]] = Append(@, request_time[f])]
       ELSE /\ pc' = [pc EXCEPT ![f] = "fetch"]
            /\ UNCHANGED limiterObs
    /\ UNCHANGED << sessionVars, envVars, queryVars, clocks, domain_arg, attemptVars, fnVars >>
wait_if_needed_write(f) ==
    /\ pc[f] = "wait_write"
    /\ rate_limits' = [ Touched(rate_limits, domain_arg[f])
                          EXCEPT ![domain_arg[f]].last_request = request_time[f] ]
    /\ current_time' = [current_time EXCEPT ![f] = 0]
    /\ wake_at' = [wake_at EXCEPT ![f] = 0]
    /\ request_time' = [request_time EXCEPT ![f] = 0]
    /\ IF caller[f] = "limiter"
       THEN /\ pc' = [pc EXCEPT ![f] = "idle"]
            /\ calls_done' = [calls_done EXCEPT ![f] = @ + 1]
            /\ completions' = [completions EXCEPT
                                 ![domain_arg[f]] = Append(@, request_time[f])]
       ELSE /\ pc' = [pc EXCEPT ![f] = "fetch"]
            /\ UNCHANGED limiterObs
    /\ UNCHANGED << sessionVars, envVars, queryVars, clocks, domain_arg, attemptVars, fnVars >>

\* time passes
Tick ==
    /\ monotonic < MaxTicks
    /\ clock' = clock + 1
    /\ monotonic' = monotonic + 1
    /\ UNCHANGED << sessionVars, envVars, queryVars, rate_limits, pc, waitVars, attemptVars,
                    limiterObs, fnVars >>

----------------------------------------------------------------------------
(* app/scraper.py WebScraper.scrape_url and app/ui.py                      *)
(* process_scrape_request                                                  *)

\* the error message process_scrape_request stores for an exception (ui.py:111-125)
ErrorMessageFor(kind) ==
    CASE kind = "URLValidationError"  -> "Invalid URL"
      [] kind = "SSRFProtectionError" -> "Security Error"
      [] kind = "ScrapingError"       -> "Scraping Error"
      [] kind = "ValueError"          -> "Configuration Error"
      [] OTHER                        -> "Unexpected Error"

\* scrape_url is entered by flow f for url u
Enter(f, who, u, ledger) ==
    /\ pc' = [pc EXCEPT ![f] = "validate"]
    /\ caller' = [caller EXCEPT ![f] = who]
    /\ url_arg' = [url_arg EXCEPT ![f] = u]
    /\ outcome' = [outcome EXCEPT ![f] = "running"]
    /\ ledger_at_entry' = [ledger_at_entry EXCEPT ![f] = ledger]
    /\ UNCHANGED << result, resolver_calls, guard_answer, ssrf_error, cleared,
                    contacted, fetches, browser, html >>

\* scrape_url raises `kind`
Raise(f, kind) ==
    /\ outcome' = [outcome EXCEPT ![f] = kind]
    /\ pc' = [pc EXCEPT ![f] = "returned"]

\* the locals and observations of the attempt of flow f end with it
Leave(f) ==
    /\ pc' = [pc EXCEPT ![f] = "idle"]
    /\ caller' = [caller EXCEPT ![f] = "none"]
    /\ url_arg' = [url_arg EXCEPT ![f] = <<>>]
    /\ domain_arg' = [domain_arg EXCEPT ![f] = <<>>]
    /\ outcome' = [outcome EXCEPT ![f] = "none"]
    /\ result' = [result EXCEPT ![f] = NoDocument]
    /\ ledger_at_entry' = [ledger_at_entry EXCEPT ![f] = NoEntries]
    /\ resolver_calls' = [resolver_calls EXCEPT ![f] = 0]
    /\ guard_answer' = [guard_answer EXCEPT ![f] = "not called"]
    /\ ssrf_error' = [ssrf_error EXCEPT ![f] = "None"]
    /\ cleared' = [cleared EXCEPT ![f] = {}]
    /\ contacted' = [contacted EXCEPT ![f] = {}]
    /\ fetches' = [fetches EXCEPT ![f] = 0]
    /\ browser' = [browser EXCEPT ![f] = "none"]
    /\ html' = [html EXCEPT ![f] = NoHtml]

\* ui.py:94-97: a new WebScraper is stored, then its scrape_url is called;
\* WebScraper() raises ValueError when GEMINI_API_KEY is not set, which
\* ui.py:120-122 turns into a message.  The request is a new script run:
\* what the previous run showed with st.error is gone
process_scrape_request(f, u) ==
    /\ pc[f] = "idle"
    /\ IF api_key_set
       THEN /\ scraper' = "WebScraper"
            /\ rate_limits' = NoEntries
            /\ Enter(f, "ui", u, NoEntries)
            /\ UNCHANGED << content, chat_history, current_url, error_message >>
       ELSE /\ error_message' = ErrorMessageFor("ValueError")
            /\ UNCHANGED << scraper, content, chat_history, current_url, rate_limits,
                            pc, attemptVars >>
    /\ last_query' = NoQuery
    /\ shown' = NothingShown
    /\ UNCHANGED << envVars, turn_current, response, provider_calls, analysis,
                    clocks, waitVars, limiterObs, fnVars >>

\* scrape_url called on a WebScraper by its owner
scrape_url(f, u) ==
    /\ pc[f] = "idle"
    /\ Enter(f, "api", u, rate_limits)
    /\ UNCHANGED << sessionVars, envVars, queryVars, clocks, rate_limits, waitVars,
                    limiterObs, fnVars >>

\* scraper.py:194-197
scrape_url_validate_unchecked(f) ==
    /\ pc[f] = "validate"
    /\ pc' = [pc EXCEPT ![f] = "ssrf"]
    /\ UNCHANGED << sessionVars, envVars, queryVars, clocks, rate_limits, waitVars, caller,
                    url_arg, outcome, result, ledger_at_entry, resolver_calls,
                    guard_answer, ssrf_error, cleared, contacted, fetches,
                    browser, html, limiterObs, fnVars >>
scrape_url_validate(f) ==
    /\ pc[f] = "validate"
    /\ IF validate_url(url_arg[f]).ok
       THEN /\ pc' = [pc EXCEPT ![f] = "ssrf"]
            /\ UNCHANGED outcome
       ELSE Raise(f, "URLValidationError")
    /\ UNCHANGED << sessionVars, envVars, queryVars, clocks, rate_limits, waitVars, caller,
                    url_arg, result, ledger_at_entry, resolver_calls, guard_answer,
                    ssrf_error, cleared, contacted, fetches, browser, html,
                    limiterObs, fnVars >>

\* domain = urlparse(url).netloc (scraper.py:205): the key of the ledger
rate_limit_domain(url) == urlparse(url).netloc

\* scraper.py:199-205, once the guard has returned `verdict` for the
\* resolver's `answer`
scrape_url_ssrf_returns(f, answer, verdict) ==
    /\ guard_answer' = [guard_answer EXCEPT ![f] = answer.kind]
    /\ resolver_calls' = [resolver_calls EXCEPT
                            ![f] = IF answer = NotCalled THEN @ ELSE @ + 1]
    /\ IF verdict.ok
       THEN /\ pc' = [pc EXCEPT ![f] = "wait_time"]
            /\ domain_arg' = [domain_arg EXCEPT ![f] = rate_limit_domain(url_arg[f])]
            /\ cleared' = [cleared EXCEPT ![f] = Range(answer.addrs)]
            /\ UNCHANGED << outcome, ssrf_error >>
       ELSE /\ Raise(f, "SSRFProtectionError")
            /\ ssrf_error' = [ssrf_error EXCEPT ![f] = verdict.error]
            /\ UNCHANGED << domain_arg, cleared >>

\* the answers the guard can get from the resolver for the URL
guard_answers(url) ==
    IF calls_resolver(url)
    THEN getaddrinfo(hostname_of(urlparse(url).netloc))
    ELSE { NotCalled }

\* scraper.py:199-205
scrape_url_ssrf(f) ==
    /\ pc[f] = "ssrf"
    /\ \E answer \in guard_answers(url_arg[f]) :
         scrape_url_ssrf_returns(f, answer, check_ssrf_protection(url_arg[f], answer))
    /\ UNCHANGED << sessionVars, envVars, queryVars, clocks, rate_limits, current_time, wake_at, request_time,
                    caller, url_arg, result, ledger_at_entry, contacted, fetches,
                    browser, html, limiterObs, fnVars >>

\* the addresses a client connects to for the hostname: it asks the resolver
\* again and tries the addresses of the answer in turn, up to the one that
\* takes the connection, or to the last one when all refuse
connect_attempts(hostname) ==
    UNION { { Range(SubSeq(answer.addrs, 1, k)) : k \in 1..Len(answer.addrs) } :
              answer \in getaddrinfo(hostname) }

\* scraper.py:208-213 and _scrape_with_playwright (215-248), in the steps of
\* its control flow.  sync_playwright() and p.chromium.launch (225-226): the
\* browser is open, or the launch raises and there is no browser
scrape_with_playwright_launch(f) ==
    /\ pc[f] = "fetch"
    /\ fetches' = [fetches EXCEPT ![f] = @ + 1]
    /\ \/ /\ Raise(f, "ScrapingError")
          /\ UNCHANGED browser
       \/ /\ browser' = [browser EXCEPT ![f] = "open"]
          /\ pc' = [pc EXCEPT ![f] = "page"]
          /\ UNCHANGED outcome
    /\ UNCHANGED << sessionVars, envVars, queryVars, clocks, rate_limits, waitVars, caller,
                    url_arg, result, ledger_at_entry, resolver_calls, guard_answer,
                    ssrf_error, cleared, contacted, html, limiterObs, fnVars >>

\* What a navigation contacts besides the host of its URL: nothing, or a
\* host that a redirect or a resource of the page names, here an internal one
FurtherContacts == { {}, { <<"1","0",".","0",".","0",".","5">> } }

\* the body of the try up to the navigation (scraper.py:229-239): new_page,
\* set_extra_http_headers or goto raises before any host is contacted; or
\* the browser resolves the host of the URL itself, connects to addresses
\* it got and to the hosts the response leads it to, and then goto raises
\* or returns
scrape_with_playwright_page(f) ==
    /\ pc[f] = "page"
    /\ \/ /\ pc' = [pc EXCEPT ![f] = "close"]
          /\ UNCHANGED contacted
       \/ \E tried \in connect_attempts(hostname_of(urlparse(url_arg[f]).netloc)),
             further \in FurtherContacts :
                /\ contacted' = [contacted EXCEPT ![f] = tried \cup further]
                /\ \/ pc' = [pc EXCEPT ![f] = "close"]
                   \/ pc' = [pc EXCEPT ![f] = "content"]
    /\ UNCHANGED << sessionVars, envVars, queryVars, clocks, rate_limits, waitVars, caller,
                    url_arg, outcome, result, ledger_at_entry, resolver_calls,
                    guard_answer, ssrf_error, cleared, fetches, browser, html,
                    limiterObs, fnVars >>

\* the rest of the try body (scraper.py:240-242), after the navigation:
\* page.wait_for_timeout has waited and page.content returns the HTML, or
\* one of the two raises
scrape_with_playwright_content(f) ==
    /\ pc[f] = "content"
    /\ pc' = [pc EXCEPT ![f] = "close"]
    /\ \E h \in Pages \cup { NoHtml } : html' = [html EXCEPT ![f] = h]
    /\ UNCHANGED << sessionVars, envVars, queryVars, clocks, rate_limits, waitVars, caller,
                    url_arg, outcome, result, ledger_at_entry, resolver_calls,
                    guard_answer, ssrf_error, cleared, contacted, fetches,
                    browser, limiterObs, fnVars >>

\* finally: browser.close() (scraper.py:244-245), after which the exception
\* of the try body goes on to scrape_url, which wraps it (scraper.py:211-213);
\* or browser.close() raises, and its exception is the one that is wrapped,
\* whether page.content() had returned or not.  The exception leaves the
\* block of sync_playwright() (scraper.py:225), whose exit stops Playwright
scrape_with_playwright_close_unwrapped(f) ==
    /\ pc[f] = "close"
    /\ \/ /\ browser' = [browser EXCEPT ![f] = "closed"]
          /\ IF html[f] = NoHtml
             THEN Raise(f, "Exception")
             ELSE /\ pc' = [pc EXCEPT ![f] = "parse"]
                  /\ UNCHANGED outcome
       \/ /\ browser' = [browser EXCEPT ![f] = "close raised"]
          /\ Raise(f, "Exception")
    /\ UNCHANGED << sessionVars, envVars, queryVars, clocks, rate_limits, waitVars, caller,
                    url_arg, result, ledger_at_entry, resolver_calls, guard_answer,
                    ssrf_error, cleared, contacted, fetches, html,
                    limiterObs, fnVars >>
scrape_with_playwright_close_on_success(f) ==
    /\ pc[f] = "close"
    /\ IF html[f] = NoHtml
       THEN /\ Raise(f, "ScrapingError")
            /\ UNCHANGED browser
       ELSE \/ /\ browser' = [browser EXCEPT ![f] = "closed"]
               /\ pc' = [pc EXCEPT ![f] = "parse"]
               /\ UNCHANGED outcome
            \/ /\ browser' = [browser EXCEPT ![f] = "close raised"]
               /\ Raise(f, "ScrapingError")
    /\ UNCHANGED << sessionVars, envVars, queryVars, clocks, rate_limits, waitVars, caller,
                    url_arg, result, ledger_at_entry, resolver_calls, guard_answer,
                    ssrf_error, cleared, contacted, fetches, html,
                    limiterObs, fnVars >>
scrape_with_playwright_close(f) ==
    /\ pc[f] = "close"
    /\ \/ /\ browser' = [browser EXCEPT ![f] = "closed"]
          /\ IF html[f] = NoHtml
             THEN Raise(f, "ScrapingError")
             ELSE /\ pc' = [pc EXCEPT ![f] = "parse"]
                  /\ UNCHANGED outcome
       \/ /\ browser' = [browser EXCEPT ![f] = "close raised"]
          /\ Raise(f, "ScrapingError")
    /\ UNCHANGED << sessionVars, envVars, queryVars, clocks, rate_limits, waitVars, caller,
                    url_arg, result, ledger_at_entry, resolver_calls, guard_answer,
                    ssrf_error, cleared, contacted, fetches, html,
                    limiterObs, fnVars >>

\* return self._parse_html(html_content) (scraper.py:248), inside the try of
\* scrape_url (209-213): the document is returned, or the exception of
\* _parse_html is wrapped as a ScrapingError
scrape_with_playwright_parse(f) ==
    /\ pc[f] = "parse"
    /\ IF parse_html(html[f]) = KeyError
       THEN /\ Raise(f, "ScrapingError")
            /\ UNCHANGED result
       ELSE /\ outcome' = [outcome EXCEPT ![f] = "ok"]
            /\ result' = [result EXCEPT ![f] = parse_html(html[f])]
            /\ pc' = [pc EXCEPT ![f] = "returned"]
    /\ UNCHANGED << sessionVars, envVars, queryVars, clocks, rate_limits, waitVars, caller,
                    url_arg, ledger_at_entry, resolver_calls, guard_answer,
                    ssrf_error, cleared, contacted, fetches, browser, html,
                    limiterObs, fnVars >>

\* utils.py:158-178: the summary names the title and three counts
format_scrape_summary(document) ==
    [ title |-> document.title,
      text_length |-> Len(document.text),
      links_count |-> Len(document.links),
      tables_count |-> Len(document.tables) ]

\* the entries of the history, none of them produced against the content
\* that is assigned now
Outdated(flags) == [ i \in 1..Len(flags) |-> FALSE ]

\* ui.py:97-125: the document is stored and a new chat history started, or
\* the exception is turned into an error message
process_scrape_request_end_history_kept(f) ==
    /\ pc[f] = "returned"
    /\ caller[f] = "ui"
    /\ IF outcome[f] = "ok"
       THEN /\ content' = result[f]
            /\ current_url' = url_arg[f]
            /\ chat_history' = Append(chat_history,
                                      [ query |-> "System",
                                        response |-> format_scrape_summary(result[f]) ])
            /\ turn_current' = Append(Outdated(turn_current), TRUE)
            /\ error_message' = "None"
       ELSE /\ error_message' = ErrorMessageFor(outcome[f])
            /\ UNCHANGED << content, chat_history, current_url, turn_current >>
    /\ Leave(f)
    /\ UNCHANGED << scraper, envVars, last_query, shown, response, provider_calls,
                    analysis, clocks, rate_limits, current_time, wake_at, request_time,
                    limiterObs, fnVars >>
process_scrape_request_end(f) ==
    /\ pc[f] = "returned"
    /\ caller[f] = "ui"
    /\ IF outcome[f] = "ok"
       THEN /\ content' = result[f]
            /\ current_url' = url_arg[f]
            /\ chat_history' = << [ query |-> "System",
                                   response |-> format_scrape_summary(result[f]) ] >>
            /\ turn_current' = << TRUE >>
            /\ error_message' = "None"
       ELSE /\ error_message' = ErrorMessageFor(outcome[f])
            /\ UNCHANGED << content, chat_history, current_url, turn_current >>
    /\ Leave(f)
    /\ UNCHANGED << scraper, envVars, last_query, shown, response, provider_calls,
                    analysis, clocks, rate_limits, current_time, wake_at, request_time,
                    limiterObs, fnVars >>

\* the direct caller of scrape_url gets the document or the exception
scrape_url_end(f) ==
    /\ pc[f] = "returned"
    /\ caller[f] = "api"
    /\ Leave(f)
    /\ UNCHANGED << sessionVars, envVars, queryVars, clocks, rate_limits, current_time, wake_at, request_time,
                    limiterObs, fnVars >>

----------------------------------------------------------------------------
(* app/utils.py validate_query, app/scraper.py ContentAnalyzer.analyze and *)
(* app/ui.py process_query and the Clear button                            *)

\* The characters str.strip() removes, those str.isspace() is true for:
\* U+0009-U+000D, U+001C-U+001F, the space, U+0085, U+00A0, U+1680,
\* U+2000-U+200A, U+2028, U+2029, U+202F, U+205F and U+3000
WhitespaceChars ==
    { "\t", "\n", "U+000B", "\f", "\r",
      "U+001C", "U+001D", "U+001E", "U+001F", " ", "U+0085", "U+00A0",
      "U+1680", "U+2000", "U+2001", "U+2002", "U+2003", "U+2004", "U+2005",
      "U+2006", "U+2007", "U+2008", "U+2009", "U+200A", "U+2028", "U+2029",
      "U+202F", "U+205F", "U+3000" }

\* utils.py:134, query.strip() is empty: the query holds nothing but white
\* space
IsBlank(query) == \A i \in 1..Len(query) : query[i] \in WhitespaceChars

\* utils.py:125-141
validate_query(query) ==
    IF query = <<>> \/ IsBlank(query) THEN Err("Query cannot be empty")
    ELSE IF Len(query) > max_query_length
    THEN Err("Query exceeds maximum length")
    ELSE Ok

\* what analyze returns, or the ContentAnalysisError it raises: its message
\* and, for a wrapped exception, the str(e) that follows the message
Returned(text) ==
    [ ok |-> TRUE, type |-> "None", text |-> text, error |-> "None",
      detail |-> "None" ]
Raised(type, message, detail) ==
    [ ok |-> FALSE, type |-> type, text |-> "None", error |-> message,
      detail |-> detail ]

\* the body of the try (scraper.py:128-140) for what generate_content did:
\* it raised, or it returned a response with a block reason, without text
\* or with text
analyze_try(behaviour) ==
    CASE behaviour = "block_reason" ->
            Raised("ContentAnalysisError", "Content was blocked", "None")
      [] behaviour = "no_text" ->
            Raised("ContentAnalysisError", "Empty response from Gemini API", "None")
      [] behaviour = "text" -> Returned("answer")
      [] OTHER -> Raised(behaviour, "provider error", "None")

\* the except clauses (scraper.py:142-153) for an exception of the try body:
\* the first clause whose type matches; ContentAnalysisError is an Exception
analyze_except(raised) ==
    CASE raised.type = "BlockedPromptException" ->
            Raised("ContentAnalysisError",
                   "Your query was blocked by content safety filters", "None")
      [] raised.type = "StopCandidateException" ->
            Raised("ContentAnalysisError",
                   "Response generation was stopped due to content safety", "None")
      [] OTHER ->
            Raised("ContentAnalysisError", "Failed to analyze content", raised.error)

\* ContentAnalyzer.analyze once generate_content has done `behaviour`
analyze(behaviour) ==
    IF analyze_try(behaviour).ok
    THEN analyze_try(behaviour)
    ELSE analyze_except(analyze_try(behaviour))

\* process_query is entered (ui.py:128-147): the query is validated, then the
\* session must hold a document and a scraper
process_query_unguarded(f, q) ==
    /\ pc[f] = "idle"
    /\ Len(chat_history) <= MaxTurns
    /\ last_query' = [ submitted |-> TRUE, text |-> q ]
    /\ provider_calls' = [provider_calls EXCEPT ![f] = 0]
    /\ IF ~validate_query(q).ok
       THEN /\ shown' = << validate_query(q).error >>
            /\ UNCHANGED pc
       ELSE /\ shown' = NothingShown
            /\ pc' = [pc EXCEPT ![f] = "generate"]
    /\ UNCHANGED << sessionVars, envVars, turn_current, response, analysis, clocks,
                    rate_limits, waitVars, attemptVars, limiterObs, fnVars >>
process_query_document_first(f, q) ==
    /\ pc[f] = "idle"
    /\ Len(chat_history) <= MaxTurns
    /\ last_query' = [ submitted |-> TRUE, text |-> q ]
    /\ provider_calls' = [provider_calls EXCEPT ![f] = 0]
    /\ IF content = NoDocument
       THEN /\ shown' = << "Please scrape a URL first!" >>
            /\ UNCHANGED pc
       ELSE IF ~validate_query(q).ok
       THEN /\ shown' = << validate_query(q).error >>
            /\ UNCHANGED pc
       ELSE IF scraper = "None"
       THEN /\ shown' = << "Scraper not initialized. Please scrape a URL first!" >>
            /\ UNCHANGED pc
       ELSE /\ shown' = NothingShown
            /\ pc' = [pc EXCEPT ![f] = "generate"]
    /\ UNCHANGED << sessionVars, envVars, turn_current, response, analysis, clocks,
                    rate_limits, waitVars, attemptVars, limiterObs, fnVars >>
process_query(f, q) ==
    /\ pc[f] = "idle"
    /\ Len(chat_history) <= MaxTurns
    /\ last_query' = [ submitted |-> TRUE, text |-> q ]
    /\ provider_calls' = [provider_calls EXCEPT ![f] = 0]
    /\ IF ~validate_query(q).ok
       THEN /\ shown' = << validate_query(q).error >>
            /\ UNCHANGED pc
       ELSE IF content = NoDocument
       THEN /\ shown' = << "Please scrape a URL first!" >>
            /\ UNCHANGED pc
       ELSE IF scraper = "None"
       THEN /\ shown' = << "Scraper not initialized. Please scrape a URL first!" >>
            /\ UNCHANGED pc
       ELSE /\ shown' = NothingShown
            /\ pc' = [pc EXCEPT ![f] = "generate"]
    /\ UNCHANGED << sessionVars, envVars, turn_current, response, analysis, clocks,
                    rate_limits, waitVars, attemptVars, limiterObs, fnVars >>

\* self.model.generate_content(context) (scraper.py:129): the one call of
\* the provider
analyze_generate(f) ==
    /\ pc[f] = "generate"
    /\ \E behaviour \in ProviderBehaviours :
          response' = [response EXCEPT ![f] = behaviour]
    /\ provider_calls' = [provider_calls EXCEPT ![f] = @ + 1]
    /\ pc' = [pc EXCEPT ![f] = "analyzed"]
    /\ UNCHANGED << sessionVars, envVars, last_query, shown, turn_current, analysis,
                    clocks, rate_limits, waitVars, attemptVars, limiterObs, fnVars >>

\* the rest of analyze (scraper.py:131-153): it returns the text or raises
analyze_return_retrying(f) ==
    /\ pc[f] = "analyzed"
    /\ IF ~analyze(response[f]).ok /\ provider_calls[f] < 2
       THEN /\ pc' = [pc EXCEPT ![f] = "generate"]
            /\ UNCHANGED analysis
       ELSE /\ analysis' = [analysis EXCEPT ![f] = analyze(response[f])]
            /\ pc' = [pc EXCEPT ![f] = "answered"]
    /\ UNCHANGED << sessionVars, envVars, last_query, shown, turn_current, response,
                    provider_calls, clocks, rate_limits, waitVars, attemptVars,
                    limiterObs, fnVars >>
analyze_return(f) ==
    /\ pc[f] = "analyzed"
    /\ analysis' = [analysis EXCEPT ![f] = analyze(response[f])]
    /\ pc' = [pc EXCEPT ![f] = "answered"]
    /\ UNCHANGED << sessionVars, envVars, last_query, shown, turn_current, response,
                    provider_calls, clocks, rate_limits, waitVars, attemptVars,
                    limiterObs, fnVars >>

\* ui.py:151-164: the turn is appended to the history, or the
\* ContentAnalysisError is shown with st.error
process_query_end_always_appends(f) ==
    /\ pc[f] = "answered"
    /\ chat_history' = Append(chat_history,
                              [ query |-> last_query.text,
                                response |-> analysis[f].text ])
    /\ turn_current' = Append(turn_current, TRUE)
    /\ shown' = IF analysis[f].ok THEN shown
                ELSE << "Analysis Error", analysis[f].error, analysis[f].detail >>
    /\ pc' = [pc EXCEPT ![f] = "idle"]
    /\ response' = [response EXCEPT ![f] = "none"]
    /\ analysis' = [analysis EXCEPT ![f] = NoAnalysis]
    /\ UNCHANGED << scraper, content, current_url, error_message, envVars,
                    last_query, provider_calls, clocks, rate_limits, waitVars,
                    attemptVars, limiterObs, fnVars >>
process_query_end(f) ==
    /\ pc[f] = "answered"
    /\ IF analysis[f].ok
       THEN /\ chat_history' = Append(chat_history,
                                      [ query |-> last_query.text,
                                        response |-> analysis[f].text ])
            /\ turn_current' = Append(turn_current, TRUE)
            /\ UNCHANGED shown
       ELSE /\ shown' = << "Analysis Error", analysis[f].error, analysis[f].detail >>
            /\ UNCHANGED << chat_history, turn_current >>
    /\ pc' = [pc EXCEPT ![f] = "idle"]
    /\ response' = [response EXCEPT ![f] = "none"]
    /\ analysis' = [analysis EXCEPT ![f] = NoAnalysis]
    /\ UNCHANGED << scraper, content, current_url, error_message, envVars,
                    last_query, provider_calls, clocks, rate_limits, waitVars,
                    attemptVars, limiterObs, fnVars >>

\* the Clear button (ui.py:186-190), shown when there is content
clear_discarding_scraper(f) ==
    /\ pc[f] = "idle"
    /\ scraper # "None"
    /\ scraper' = "None"
    /\ last_query' = NoQuery
    /\ shown' = NothingShown
    /\ UNCHANGED << content, chat_history, turn_current, current_url, error_message,
                    envVars, response, provider_calls, analysis, clocks, rate_limits,
                    pc, waitVars, attemptVars, limiterObs, fnVars >>
clear(f) ==
    /\ pc[f] = "idle"
    /\ content # NoDocument
    /\ content' = NoDocument
    /\ chat_history' = <<>>
    /\ turn_current' = <<>>
    /\ current_url' = <<>>
    /\ last_query' = NoQuery
    /\ shown' = NothingShown
    /\ UNCHANGED << scraper, error_message, envVars, response, provider_calls,
                    analysis, clocks, rate_limits, pc, waitVars, attemptVars,
                    limiterObs, fnVars >>

\* The application: the session handler runs scrape attempts one at a time.
\* wait_if_needed_sleep is not among the steps: every request gets a new
\* WebScraper (ui.py:96), whose ledger is empty, so wait_if_needed_read finds
\* last_request = 0 and never takes the branch that sleeps.
Next ==
    \/ \E f \in flows, u \in ScrapeUrls : process_scrape_request(f, u)
    \/ \E f \in flows : scrape_url_validate(f)
    \/ \E f \in flows : scrape_url_ssrf(f)
    \/ \E f \in flows : wait_if_needed_time(f)
    \/ \E f \in flows : wait_if_needed_read(f)
    \/ \E f \in flows : wait_if_needed_missing(f)
    \/ \E f \in flows : wait_if_needed_stamp(f)
    \/ \E f \in flows : wait_if_needed_write(f)
    \/ \E f \in flows : scrape_with_playwright_launch(f)
    \/ \E f \in flows : scrape_with_playwright_page(f)
    \/ \E f \in flows : scrape_with_playwright_content(f)
    \/ \E f \in flows : scrape_with_playwright_close(f)
    \/ \E f \in flows : scrape_with_playwright_parse(f)
    \/ \E f \in flows : process_scrape_request_end(f)
    \/ Tick

Spec == Init /\ [][Next]_vars

\* The session with its three operations: scrape, query and clear, one
\* script run at a time (Streamlit runs the script of a session serially).
\* wait_if_needed_sleep is not among the steps: every request starts on the
\* empty ledger of a new WebScraper (ui.py:96) and never sleeps.
InitSession ==
    /\ InitBase({"session"})
    /\ default_delay = 1
    /\ api_key_set = TRUE
    /\ FnUnused

NextSession ==
    \/ \E f \in flows, u \in SessionUrls : process_scrape_request(f, u)
    \/ \E f \in flows : scrape_url_validate(f)
    \/ \E f \in flows : scrape_url_ssrf(f)
    \/ \E f \in flows : wait_if_needed_time(f)
    \/ \E f \in flows : wait_if_needed_read(f)
    \/ \E f \in flows : wait_if_needed_missing(f)
    \/ \E f \in flows : wait_if_needed_stamp(f)
    \/ \E f \in flows : wait_if_needed_write(f)
    \/ \E f \in flows : scrape_with_playwright_launch(f)
    \/ \E f \in flows : scrape_with_playwright_page(f)
    \/ \E f \in flows : scrape_with_playwright_content(f)
    \/ \E f \in flows : scrape_with_playwright_close(f)
    \/ \E f \in flows : scrape_with_playwright_parse(f)
    \/ \E f \in flows : process_scrape_request_end(f)
    \/ \E f \in flows, q \in Queries : process_query(f, q)
    \/ \E f \in flows : analyze_generate(f)
    \/ \E f \in flows : analyze_return(f)
    \/ \E f \in flows : process_query_end(f)
    \/ \E f \in flows : clear(f)
    \/ monotonic < MaxSessionTicks /\ Tick

SpecSession == InitSession /\ [][NextSession]_vars

\* One WebScraper used directly: scrape_url is called on it again and again
InitScraper ==
    /\ InitBase({"caller"})
    /\ default_delay \in 1..MaxDelay
    /\ api_key_set = TRUE
    /\ FnUnused

NextScraper ==
    \/ \E f \in flows, u \in ScrapeUrls : scrape_url(f, u)
    \/ \E f \in flows : scrape_url_validate(f)
    \/ \E f \in flows : scrape_url_ssrf(f)
    \/ \E f \in flows : wait_if_needed_time(f)
    \/ \E f \in flows : wait_if_needed_read(f)
    \/ \E f \in flows : wait_if_needed_missing(f)
    \/ \E f \in flows : wait_if_needed_sleep(f)
    \/ \E f \in flows : wait_if_needed_stamp(f)
    \/ \E f \in flows : wait_if_needed_write(f)
    \/ \E f \in flows : scrape_with_playwright_launch(f)
    \/ \E f \in flows : scrape_with_playwright_page(f)
    \/ \E f \in flows : scrape_with_playwright_content(f)
    \/ \E f \in flows : scrape_with_playwright_close(f)
    \/ \E f \in flows : scrape_with_playwright_parse(f)
    \/ \E f \in flows : scrape_url_end(f)
    \/ Tick

SpecScraper == InitScraper /\ [][NextScraper]_vars

----------------------------------------------------------------------------
(* One RateLimiter called directly: by one flow, call after call, or by    *)
(* NumFlows flows at once.                                                 *)

\* flow f calls wait_if_needed(domain)
wait_if_needed(f, domain) ==
    /\ pc[f] = "idle"
    /\ calls_done[f] < MaxCalls
    /\ pc' = [pc EXCEPT ![f] = "wait_time"]
    /\ caller' = [caller EXCEPT ![f] = "limiter"]
    /\ domain_arg' = [domain_arg EXCEPT ![f] = domain]
    /\ UNCHANGED << sessionVars, envVars, queryVars, clocks, rate_limits, current_time, wake_at, request_time,
                    url_arg, outcome, result, ledger_at_entry, resolver_calls,
                    guard_answer, ssrf_error, cleared, contacted, fetches,
                    browser, html, limiterObs, fnVars >>

InitLimiterSeq ==
    /\ InitBase({1})
    /\ default_delay \in 1..MaxDelay
    /\ api_key_set = TRUE
    /\ FnUnused

InitLimiter ==
    /\ InitBase(1..NumFlows)
    /\ default_delay \in 1..MaxDelay
    /\ api_key_set = TRUE
    /\ FnUnused

NextLimiter ==
    \/ \E f \in flows, d \in Domains : wait_if_needed(f, d)
    \/ \E f \in flows : wait_if_needed_time(f)
    \/ \E f \in flows : wait_if_needed_read(f)
    \/ \E f \in flows : wait_if_needed_missing(f)
    \/ \E f \in flows : wait_if_needed_sleep(f)
    \/ \E f \in flows : wait_if_needed_stamp(f)
    \/ \E f \in flows : wait_if_needed_write(f)
    \/ Tick

SpecLimiterSeq == InitLimiterSeq /\ [][NextLimiter]_vars
SpecLimiter == InitLimiter /\ [][NextLimiter]_vars

\* time.time() is the wall clock: the system clock is set back.  The time
\* that has passed, which time.sleep measures, is not changed by it
ClockSetBack ==
    /\ clock > StartTime
    /\ clock' = clock - 1
    /\ UNCHANGED << monotonic, sessionVars, envVars, queryVars, rate_limits, pc, waitVars, attemptVars,
                    limiterObs, fnVars >>

\* One RateLimiter called by one flow while the wall clock is adjusted
NextLimiterWallClock ==
    \/ NextLimiter
    \/ ClockSetBack

SpecLimiterWallClock == InitLimiterSeq /\ [][NextLimiterWallClock]_vars

----------------------------------------------------------------------------
(* src/main.py: the stand-alone script of the application, with a          *)
(* WebScraper class of its own.  It imports nothing from app/ and nothing  *)
(* of app/ imports it: a session runs main.py or app/ui.py, never both, so *)
(* its steps make a specification of their own.  Its session state has no  *)
(* error_message and it has no Clear button.                               *)

\* the button "Scrape URL" (main.py:220-223): a new script run, in which a
\* new WebScraper is stored and its scrape_url is entered; WebScraper()
\* raises ValueError without GEMINI_API_KEY (main.py:27-30), which the
\* handler shows with st.error (main.py:239-240).  The URL is taken as it
\* was typed: there is no `if url` and no validation
main_scrape_button(f, u) ==
    /\ pc[f] = "idle"
    /\ last_query' = NoQuery
    /\ IF api_key_set
       THEN /\ scraper' = "WebScraper"
            /\ rate_limits' = NoEntries
            /\ pc' = [pc EXCEPT ![f] = "main_robots"]
            /\ caller' = [caller EXCEPT ![f] = "main"]
            /\ url_arg' = [url_arg EXCEPT ![f] = u]
            /\ outcome' = [outcome EXCEPT ![f] = "running"]
            /\ shown' = NothingShown
       ELSE /\ shown' = << "Error", "ValueError" >>
            /\ UNCHANGED << scraper, rate_limits, pc, caller, url_arg, outcome >>
    /\ UNCHANGED << content, chat_history, current_url, error_message, envVars,
                    turn_current, response, provider_calls, analysis, clocks,
                    waitVars, result, ledger_at_entry, resolver_calls,
                    guard_answer, ssrf_error, cleared, contacted, fetches,
                    browser, html, limiterObs, fnVars >>

\* requests.get(robots_url) (main.py:47-49) sends a request only for an
\* http or https URL; it resolves the host itself and connects to the
\* addresses it gets, one after the other until one takes the connection,
\* whatever the addresses are, and then to the host a redirect names
robots_addresses(parsed) ==
    IF /\ parsed.scheme \in { <<"h","t","t","p">>, <<"h","t","t","p","s">> }
       /\ hostname_of(parsed.netloc) # <<>>
    THEN connect_attempts(hostname_of(parsed.netloc))
    ELSE {}

\* _check_robots_txt has returned True (main.py:64): domain =
\* urlparse(url).netloc and _respect_rate_limits is entered (main.py:67-68)
main_robots_allow(f, parsed) ==
    /\ domain_arg' = [domain_arg EXCEPT ![f] = parsed.netloc]
    /\ pc' = [pc EXCEPT ![f] = "wait_time"]
    /\ UNCHANGED outcome

\* _check_robots_txt (main.py:45-53) and line 64-65, for the parsed URL:
\* urlparse raises ValueError outside the try; every failure of the request
\* or of the parser counts as allowed (the bare except); robots.txt was
\* fetched and allows or disallows the URL
main_check_robots_txt_parsed(f, parsed) ==
    IF ~parsed.ok
    THEN /\ Raise(f, "ValueError")
         /\ UNCHANGED << domain_arg, contacted >>
    ELSE \/ /\ main_robots_allow(f, parsed)
            /\ UNCHANGED contacted
         \/ \E tried \in robots_addresses(parsed), further \in FurtherContacts :
              /\ contacted' = [contacted EXCEPT ![f] = @ \cup tried \cup further]
              /\ \/ main_robots_allow(f, parsed)
                 \/ /\ Raise(f, "Exception")
                    /\ UNCHANGED domain_arg

\* the first step of scrape_url (main.py:64-68)
main_check_robots_txt(f) ==
    /\ pc[f] = "main_robots"
    /\ main_check_robots_txt_parsed(f, urlparse(url_arg[f]))
    /\ UNCHANGED << sessionVars, envVars, queryVars, clocks, rate_limits,
                    current_time, wake_at, request_time, caller, url_arg, result,
                    ledger_at_entry, resolver_calls, guard_answer, ssrf_error,
                    cleared, fetches, browser, html, limiterObs, fnVars >>

\* _respect_rate_limits (main.py:55-61) has the statements of wait_if_needed
\* (scraper.py:58-68), in the same order, on a ledger whose delay is 1; it
\* returns into the try of scrape_url.  time.sleep is not among the steps:
\* the ledger of the new WebScraper is empty
main_respect_rate_limits(f) ==
    /\ caller[f] = "main"
    /\ \/ wait_if_needed_time(f)
       \/ wait_if_needed_read(f)
       \/ wait_if_needed_missing(f)
       \/ wait_if_needed_stamp(f)
       \/ wait_if_needed_write(f)

\* sync_playwright() and p.chromium.launch (main.py:71-72): the browser is
\* open, or the launch raises, which line 100-101 wraps in an Exception
main_scrape_url_launch(f) ==
    /\ pc[f] = "fetch"
    /\ caller[f] = "main"
    /\ fetches' = [fetches EXCEPT ![f] = @ + 1]
    /\ \/ /\ Raise(f, "Exception")
          /\ UNCHANGED browser
       \/ /\ browser' = [browser EXCEPT ![f] = "open"]
          /\ pc' = [pc EXCEPT ![f] = "main_page"]
          /\ UNCHANGED outcome
    /\ UNCHANGED << sessionVars, envVars, queryVars, clocks, rate_limits, waitVars,
                    caller, url_arg, result, ledger_at_entry, resolver_calls,
                    guard_answer, ssrf_error, cleared, contacted, html,
                    limiterObs, fnVars >>

\* the page of a URL that is not an http or https URL comes, when it comes,
\* without a request to a host
fetched_without_request(url) ==
    \/ ~urlparse(url).ok
    \/ urlparse(url).scheme \notin { <<"h","t","t","p">>, <<"h","t","t","p","s">> }

\* what page.goto contacts: the host of the URL, at the addresses the
\* browser tries, and the hosts the response leads to; there is no check of
\* what is contacted
main_page_contacts(f) ==
    /\ urlparse(url_arg[f]).ok
    /\ \E tried \in robots_addresses(urlparse(url_arg[f])),
          further \in FurtherContacts :
         contacted' = [contacted EXCEPT ![f] = @ \cup tried \cup further]

\* new_page, set_extra_http_headers and goto (main.py:73-80): one of them
\* raises, before or after hosts were contacted, and the exception leaves
\* the try without browser.close() having been called (there is no
\* finally); or goto returns, with hosts contacted unless the URL is one
\* that is fetched without a request
main_scrape_url_page(f) ==
    /\ pc[f] = "main_page"
    /\ \/ /\ Raise(f, "Exception")
          /\ \/ UNCHANGED contacted
             \/ main_page_contacts(f)
       \/ /\ pc' = [pc EXCEPT ![f] = "main_content"]
          /\ UNCHANGED outcome
          /\ IF fetched_without_request(url_arg[f])
             THEN UNCHANGED contacted
             ELSE main_page_contacts(f)
    /\ UNCHANGED << sessionVars, envVars, queryVars, clocks, rate_limits, waitVars,
                    caller, url_arg, result, ledger_at_entry, resolver_calls,
                    guard_answer, ssrf_error, cleared, fetches, browser, html,
                    limiterObs, fnVars >>

\* page.wait_for_timeout(2000) and page.content() (main.py:81-82), after
\* the navigation: one of them raises, the browser left open, or content
\* returns the HTML
main_scrape_url_content(f) ==
    /\ pc[f] = "main_content"
    /\ \/ /\ Raise(f, "Exception")
          /\ UNCHANGED html
       \/ /\ \E h \in Pages : html' = [html EXCEPT ![f] = h]
          /\ pc' = [pc EXCEPT ![f] = "main_close"]
          /\ UNCHANGED outcome
    /\ UNCHANGED << sessionVars, envVars, queryVars, clocks, rate_limits, waitVars,
                    caller, url_arg, result, ledger_at_entry, resolver_calls,
                    guard_answer, ssrf_error, cleared, contacted, fetches,
                    browser, limiterObs, fnVars >>

\* browser.close() (main.py:83), reached only with the HTML; its exception
\* is wrapped like the others (main.py:100-101)
main_scrape_url_close(f) ==
    /\ pc[f] = "main_close"
    /\ \/ /\ browser' = [browser EXCEPT ![f] = "closed"]
          /\ pc' = [pc EXCEPT ![f] = "main_parse"]
          /\ UNCHANGED outcome
       \/ /\ browser' = [browser EXCEPT ![f] = "close raised"]
          /\ Raise(f, "Exception")
    /\ UNCHANGED << sessionVars, envVars, queryVars, clocks, rate_limits, waitVars,
                    caller, url_arg, result, ledger_at_entry,
                    resolver_calls, guard_answer, ssrf_error, cleared, contacted,
                    fetches, html, limiterObs, fnVars >>

\* the document is built with the expressions of _parse_html (main.py:85-98)
\* inside the try: the KeyError of tag['content'] is wrapped in an Exception
\* (main.py:100-101)
main_scrape_url_parse(f) ==
    /\ pc[f] = "main_parse"
    /\ IF parse_html(html[f]) = KeyError
       THEN /\ Raise(f, "Exception")
            /\ UNCHANGED result
       ELSE /\ outcome' = [outcome EXCEPT ![f] = "ok"]
            /\ result' = [result EXCEPT ![f] = parse_html(html[f])]
            /\ pc' = [pc EXCEPT ![f] = "returned"]
    /\ UNCHANGED << sessionVars, envVars, queryVars, clocks, rate_limits, waitVars,
                    caller, url_arg, ledger_at_entry, resolver_calls, guard_answer,
                    ssrf_error, cleared, contacted, fetches, browser, html,
                    limiterObs, fnVars >>

\* scrape_url has returned: content and current_url are assigned
\* (main.py:224-226) and st.success is called (main.py:227) with the chat
\* history of the previous document still in place
main_scrape_store(f) ==
    /\ pc[f] = "returned"
    /\ caller[f] = "main"
    /\ outcome[f] = "ok"
    /\ content' = result[f]
    /\ current_url' = url_arg[f]
    /\ turn_current' = Outdated(turn_current)
    /\ pc' = [pc EXCEPT ![f] = "main_success"]
    /\ UNCHANGED << scraper, chat_history, error_message, envVars, last_query,
                    shown, response, provider_calls, analysis, clocks, rate_limits,
                    waitVars, attemptVars, limiterObs, fnVars >>

\* st.success (main.py:227) is a point at which Streamlit stops a script
\* run whose session has asked for a new one: the exception it raises is
\* not an Exception, so the handler's except does not catch it, and the
\* lines after it do not run
main_scrape_stopped(f) ==
    /\ pc[f] = "main_success"
    /\ Leave(f)
    /\ UNCHANGED << sessionVars, envVars, queryVars, clocks, rate_limits,
                    current_time, wake_at, request_time, limiterObs, fnVars >>

\* the chat history is started again with the system message and the
\* script is run again (main.py:228-237)
main_scrape_end(f) ==
    /\ pc[f] = "main_success"
    /\ chat_history' = << [ query |-> "System",
                           response |-> [ title |-> content.title,
                                          text_length |-> Len(content.text),
                                          links_count |-> Len(content.links),
                                          tables_count |-> Len(content.tables) ] ] >>
    /\ turn_current' = << TRUE >>
    /\ Leave(f)
    /\ UNCHANGED << scraper, content, current_url, error_message, envVars,
                    last_query, shown, response, provider_calls, analysis, clocks,
                    rate_limits, current_time, wake_at, request_time, limiterObs,
                    fnVars >>

\* except Exception as e: st.error (main.py:239-240); the new WebScraper
\* stays in the session with the document of the previous scrape
main_scrape_error(f) ==
    /\ pc[f] = "returned"
    /\ caller[f] = "main"
    /\ outcome[f] # "ok"
    /\ shown' = << "Error", outcome[f] >>
    /\ Leave(f)
    /\ UNCHANGED << sessionVars, envVars, last_query, turn_current, response,
                    provider_calls, analysis, clocks, rate_limits, current_time,
                    wake_at, request_time, limiterObs, fnVars >>

\* process_query (main.py:189-198): the query is not validated
main_process_query(f, q) ==
    /\ pc[f] = "idle"
    /\ Len(chat_history) <= MaxTurns
    /\ last_query' = [ submitted |-> TRUE, text |-> q ]
    /\ provider_calls' = [provider_calls EXCEPT ![f] = 0]
    /\ IF content # NoDocument
       THEN /\ shown' = NothingShown
            /\ pc' = [pc EXCEPT ![f] = "main_generate"]
       ELSE /\ shown' = << "Please scrape a URL first!" >>
            /\ UNCHANGED pc
    /\ UNCHANGED << sessionVars, envVars, turn_current, response, analysis, clocks,
                    rate_limits, waitVars, attemptVars, limiterObs, fnVars >>

\* the chat input (main.py:256-259): it is enabled when there is content,
\* and an empty query is not submitted
main_chat_input(f, q) ==
    /\ content # NoDocument
    /\ q # <<>>
    /\ main_process_query(f, q)

\* response.text (main.py:119), which analyze_content returns without a
\* look at the block reason: the text of the response, the empty text of a
\* response that has none, or the ValueError the accessor raises for a
\* response without a part; an exception of generate_content goes on
main_response_text(behaviour) ==
    IF behaviour = "text" THEN { "answer" }
    ELSE IF behaviour = "no_text" THEN { "", "ValueError" }
    ELSE IF behaviour = "block_reason" THEN { "answer", "", "ValueError" }
    ELSE { behaviour }

\* analyze_content (main.py:103-119) and the rest of process_query
\* (main.py:194-196): what response.text returns, the empty text too, is
\* appended to the history; an exception of generate_content or of
\* response.text is caught nowhere and ends the script run
main_analyze_content(f) ==
    /\ pc[f] = "main_generate"
    /\ provider_calls' = [provider_calls EXCEPT ![f] = @ + 1]
    /\ \E behaviour \in ProviderBehaviours :
         \E text \in main_response_text(behaviour) :
            IF text \in { "answer", "" }
            THEN /\ chat_history' = Append(chat_history,
                                           [ query |-> last_query.text,
                                             response |-> text ])
                 /\ turn_current' = Append(turn_current, TRUE)
                 /\ UNCHANGED shown
            ELSE /\ shown' = << "Uncaught", text >>
                 /\ UNCHANGED << chat_history, turn_current >>
    /\ pc' = [pc EXCEPT ![f] = "idle"]
    /\ UNCHANGED << scraper, content, current_url, error_message, envVars,
                    last_query, response, analysis, clocks, rate_limits, waitVars,
                    attemptVars, limiterObs, fnVars >>

\* The URLs typed into main.py: none, one that is not an http URL, one that
\* urlparse does not take, one of an internal address and one that the
\* validator of app/ accepts
MainUrls ==
    { <<>>,
      <<"f","t","p",":","/","/","a",".","c","o","m","/">>,
      <<"h","t","t","p",":","/","/","[","a">>,
      <<"h","t","t","p",":","/","/","1","0",".","0",".","0",".","5","/","a","d","m","i","n">>,
      <<"h","t","t","p",":","/","/","a",".","c","o","m","/">> }

\* The queries typed into main.py: none and a blank one, which stands for
\* every query that is not empty: main.py treats them all alike
MainQueries == { <<>>, <<" ">> }

\* initialize_session_state (main.py:168-176); the delay of every entry of
\* the ledger is 1 (main.py:37-40)
InitMain ==
    /\ InitBase({"session"})
    /\ default_delay = 1
    /\ api_key_set \in BOOLEAN
    /\ FnUnused

NextMain ==
    \/ \E f \in flows, u \in MainUrls : main_scrape_button(f, u)
    \/ \E f \in flows : main_check_robots_txt(f)
    \/ \E f \in flows : main_respect_rate_limits(f)
    \/ \E f \in flows : main_scrape_url_launch(f)
    \/ \E f \in flows : main_scrape_url_page(f)
    \/ \E f \in flows : main_scrape_url_content(f)
    \/ \E f \in flows : main_scrape_url_close(f)
    \/ \E f \in flows : main_scrape_url_parse(f)
    \/ \E f \in flows : main_scrape_store(f)
    \/ \E f \in flows : main_scrape_stopped(f)
    \/ \E f \in flows : main_scrape_end(f)
    \/ \E f \in flows : main_scrape_error(f)
    \/ \E f \in flows, q \in MainQueries : main_chat_input(f, q)
    \/ \E f \in flows : main_analyze_content(f)
    \/ monotonic < MaxSessionTicks /\ Tick

SpecMain == InitMain /\ [][NextMain]_vars

----------------------------------------------------------------------------
(* validate_url and check_ssrf_protection called on their own, on every    *)
(* URL of FnUrls and every answer of the resolver.                         *)

call_validate_url ==
    /\ fn_valid = Pending
    /\ fn_valid' = validate_url(fn_url)
    /\ UNCHANGED << sessionVars, envVars, queryVars, clocks, rate_limits, pc, waitVars,
                    attemptVars, limiterObs, fn_url, fn_answer, fn_safe,
                    fn_html, fn_document, fnMore >>

call_check_ssrf_protection ==
    /\ fn_valid # Pending
    /\ fn_safe = Pending
    /\ \E answer \in guard_answers(fn_url) :
         /\ fn_answer' = answer
         /\ fn_safe' = check_ssrf_protection(fn_url, answer)
    /\ UNCHANGED << sessionVars, envVars, queryVars, clocks, rate_limits, pc, waitVars,
                    attemptVars, limiterObs, fn_url, fn_valid, fn_html, fn_document,
                    fnMore >>

InitFn ==
    /\ InitBase({})
    /\ default_delay = 1
    /\ api_key_set = TRUE
    /\ fn_url \in FnUrls
    /\ fn_answer = NotCalled
    /\ fn_valid = Pending
    /\ fn_safe = Pending
    /\ fn_html = NoHtml
    /\ fn_document = NoDocument
    /\ FnMoreUnused

NextFn ==
    \/ call_validate_url
    \/ call_check_ssrf_protection

SpecFn == InitFn /\ [][NextFn]_vars

----------------------------------------------------------------------------
(* _parse_html called on its own, on every HTML of ExtractHtmls.           *)

\* The HTML given to _parse_html: every combination of a <title> and the two
\* <meta> elements being absent, incomplete or complete
ExtractHtmls ==
    { Html(title, <<"t","e","x","t">>, links, description, keywords, tables) :
        title \in { "absent", "markup", "Title" },
        links \in { <<>>, <<"/a">> },
        description \in { "absent", "no_content", "Description" },
        keywords \in { "absent", "no_content", "Keywords" },
        tables \in { <<>>, <<"t">> } }

call_parse_html ==
    /\ fn_document = NoDocument
    /\ fn_document' = parse_html(fn_html)
    /\ UNCHANGED << sessionVars, envVars, queryVars, clocks, rate_limits, pc, waitVars,
                    attemptVars, limiterObs, fn_url, fn_answer, fn_valid, fn_safe,
                    fn_html, fnMore >>

InitExtract ==
    /\ InitBase({})
    /\ default_delay = 1
    /\ api_key_set = TRUE
    /\ fn_url = <<>>
    /\ fn_answer = NotCalled
    /\ fn_valid = Pending
    /\ fn_safe = Pending
    /\ fn_html \in ExtractHtmls
    /\ fn_document = NoDocument
    /\ FnMoreUnused

NextExtract == call_parse_html

SpecExtract == InitExtract /\ [][NextExtract]_vars

----------------------------------------------------------------------------
(* The domain scrape_url computes for the rate limiter, on every URL of    *)
(* FnUrls that scrape_url lets through to the rate limiter.                *)

\* validate_url accepts the URL and check_ssrf_protection can accept it
reaches_rate_limiter(url) ==
    /\ validate_url(url).ok
    /\ \E answer \in guard_answers(url) : check_ssrf_protection(url, answer).ok

call_rate_limit_domain ==
    /\ fn_domain = NoDomain
    /\ reaches_rate_limiter(fn_url)
    /\ fn_domain' = rate_limit_domain(fn_url)
    /\ UNCHANGED << sessionVars, envVars, queryVars, clocks, rate_limits, pc, waitVars,
                    attemptVars, limiterObs, fn_url, fn_answer, fn_valid, fn_safe,
                    fn_html, fn_document, fn_limits, fn_context >>

InitDomain ==
    /\ InitBase({})
    /\ default_delay = 1
    /\ api_key_set = TRUE
    /\ fn_url \in FnUrls
    /\ fn_answer = NotCalled
    /\ fn_valid = Pending
    /\ fn_safe = Pending
    /\ fn_html = NoHtml
    /\ fn_document = NoDocument
    /\ FnMoreUnused

NextDomain == call_rate_limit_domain

SpecDomain == InitDomain /\ [][NextDomain]_vars

----------------------------------------------------------------------------
(* The context ContentAnalyzer.analyze builds (scraper.py:108-126), on     *)
(* every document of ContextDocuments and every pair of limits.            *)

\* s[:n] of Python: the first n elements, all of s when it has fewer; for a
\* negative n all but the last -n
Slice(s, n) ==
    IF n >= 0
    THEN SubSeq(s, 1, IF n < Len(s) THEN n ELSE Len(s))
    ELSE SubSeq(s, 1, IF Len(s) + n > 0 THEN Len(s) + n ELSE 0)

\* tables_text (scraper.py:108-109): the first max_tables tables, to be
\* joined with a space, or 'No tables found' when the document has none
tables_text(tables, max_tables) ==
    IF tables # <<>>
    THEN [ found |-> TRUE, texts |-> Slice(tables, max_tables) ]
    ELSE [ found |-> FALSE, texts |-> <<>> ]

\* the parts of the f-string (scraper.py:111-126)
build_context_last_tables(document, query, max_content_length, max_tables) ==
    [ built |-> TRUE,
      title |-> document.title,
      summary |-> Slice(document.text, max_content_length),
      tables |-> [ found |-> document.tables # <<>>,
                   texts |-> SubSeq(document.tables,
                                    Len(document.tables)
                                       - Len(Slice(document.tables, max_tables)) + 1,
                                    Len(document.tables)) ],
      description |-> document.metadata.description,
      keywords |-> document.metadata.keywords,
      query |-> query ]
build_context(document, query, max_content_length, max_tables) ==
    [ built |-> TRUE,
      title |-> document.title,
      summary |-> Slice(document.text, max_content_length),
      tables |-> tables_text(document.tables, max_tables),
      description |-> document.metadata.description,
      keywords |-> document.metadata.keywords,
      query |-> query ]

\* The documents given to analyze: texts and table sequences of every
\* length up to MaxParts
ContextDocuments ==
    { [ document |-> TRUE, title |-> "Title", text |-> text, links |-> <<>>,
        metadata |-> [ description |-> "Description", keywords |-> "" ],
        tables |-> tables ] :
        text \in { SubSeq(<<"a","b","c","d">>, 1, n) : n \in 0..MaxParts },
        tables \in { SubSeq(<<"t1","t2","t3","t4">>, 1, n) : n \in 0..MaxParts } }

call_build_context ==
    /\ fn_context = NoContext
    /\ fn_context' = build_context(fn_document, <<"q">>,
                                   fn_limits.max_content_length, fn_limits.max_tables)
    /\ UNCHANGED << sessionVars, envVars, queryVars, clocks, rate_limits, pc, waitVars,
                    attemptVars, limiterObs, fn_url, fn_answer, fn_valid, fn_safe,
                    fn_html, fn_document, fn_domain, fn_limits >>

InitContext ==
    /\ InitBase({})
    /\ default_delay = 1
    /\ api_key_set = TRUE
    /\ fn_url = <<>>
    /\ fn_answer = NotCalled
    /\ fn_valid = Pending
    /\ fn_safe = Pending
    /\ fn_html = NoHtml
    /\ fn_document \in ContextDocuments
    /\ fn_domain = NoDomain
    /\ fn_limits \in [ max_content_length : 0..MaxLimit, max_tables : 0..MaxLimit ]
    /\ fn_context = NoContext

NextContext == call_build_context

SpecContext == InitContext /\ [][NextContext]_vars

----------------------------------------------------------------------------
(* Properties of a scrape attempt: validation, the SSRF guard, the fetch.   *)

\* the URLs of an attempt that validate_url rejects
InvalidScrapeUrls == { u \in ScrapeUrls : ~validate_url(u).ok }

\* The attempt of flow f was rejected by the validator or by the SSRF guard
Rejected(f) == url_arg[f] \in InvalidScrapeUrls \/ ssrf_error[f] # "None"

\* C1: in every scrape attempt, when URL validation or the SSRF check fails
\* the attempt ends without any fetch and with the rate-limit ledger as it
\* was when the attempt began.
C1_RejectedAttemptTouchesNothing ==
    \A f \in flows :
        pc[f] # "idle" /\ Rejected(f) =>
            /\ fetches[f] = 0
            /\ rate_limits = ledger_at_entry[f]
            /\ pc[f] = "returned" =>
                   outcome[f] \in { "URLValidationError", "SSRFProtectionError" }

\* an attempt rejected by the guard has returned, on a ledger with entries
C1_Witness ==
    \E f \in flows :
        /\ pc[f] = "returned"
        /\ outcome[f] = "SSRFProtectionError"
        /\ ledger_at_entry[f] # NoEntries

\* The address is one the guard must not let through
Disallowed(ip) == prefix_blocked(ip) \/ is_private_loopback_reserved(ip)

\* C2: if any address the resolver returns for the hostname is private,
\* loopback, reserved or starts with a blocked prefix, the guard rejects the
\* URL, wherever the address is in the answer and whatever else is in it.
C2_AnyBadAddressRejects ==
    ( /\ fn_safe # Pending
      /\ fn_answer.kind = "ok"
      /\ \E i \in 1..Len(fn_answer.addrs) : Disallowed(fn_answer.addrs[i]) )
    => /\ ~fn_safe.ok
       /\ fn_safe.error \in { "Access to internal network addresses is not allowed",
                              "Access to private network addresses is not allowed" }

\* the guard rejected an answer whose first address is clean and whose
\* second is not
C2_Witness ==
    /\ fn_safe # Pending
    /\ ~fn_safe.ok
    /\ fn_answer.kind = "ok"
    /\ Len(fn_answer.addrs) = 2
    /\ ~Disallowed(fn_answer.addrs[1])
    /\ Disallowed(fn_answer.addrs[2])

\* C3: the fetch never contacts an address that the guard did not clear in
\* the same attempt, nor a disallowed one, whatever the resolver answers
\* between the guard's lookup and the fetch.
C3_FetchContactsOnlyCleared ==
    \A f \in flows :
        \A a \in contacted[f] : a \in cleared[f] /\ ~Disallowed(a)

\* C4: when the resolution of the hostname fails, the guard rejects the URL
\* with a reason of its own, not the one of a blocked prefix or of a private
\* address, and the attempt ends without a rate-limit update or a fetch.
C4_ResolutionFailureFailsClosed ==
    \A f \in flows :
        guard_answer[f] = "gaierror" =>
            /\ pc[f] = "returned"
            /\ outcome[f] = "SSRFProtectionError"
            /\ ssrf_error[f] = "Cannot resolve hostname"
            /\ ssrf_error[f] \notin
                   { "Access to internal network addresses is not allowed",
                     "Access to private network addresses is not allowed" }
            /\ fetches[f] = 0
            /\ rate_limits = ledger_at_entry[f]

\* the resolver failed in an attempt that began on a ledger with entries
C4_Witness ==
    \E f \in flows :
        /\ guard_answer[f] = "gaierror"
        /\ ledger_at_entry[f] # NoEntries

----------------------------------------------------------------------------
(* Properties of validate_url.  The six checks are stated here one by one,  *)
(* on the URL and on what urlparse makes of it.                             *)

FailsNonEmpty(u) == u = <<>>
FailsLength(u) == Len(u) > max_url_length
FailsParse(parsed) == ~parsed.ok
FailsScheme(parsed) == parsed.scheme \notin Range(allowed_schemes)
FailsHost(parsed) == parsed.netloc = <<>>
FailsBlocked(parsed) == validate_url_blocked(hostname_of(parsed.netloc))

FailsParsed(parsed) ==
    FailsParse(parsed) \/ FailsScheme(parsed) \/ FailsHost(parsed) \/ FailsBlocked(parsed)

\* the validator rejects the URL: one of its checks fails
RejectedByValidator(u) ==
    FailsNonEmpty(u) \/ FailsLength(u) \/ FailsParsed(urlparse(u))

\* the URLs of an attempt that the validator rejects
RejectedScrapeUrls == { u \in ScrapeUrls : RejectedByValidator(u) }

\* C5: for every URL that the validator rejects the resolver is called zero
\* times during the attempt.
C5_RejectedUrlNeverResolved ==
    \A f \in flows :
        pc[f] # "idle" /\ url_arg[f] \in RejectedScrapeUrls => resolver_calls[f] = 0

\* an attempt was rejected by the validator for a URL whose hostname the
\* guard would have given to the resolver
C5_Witness ==
    \E f \in flows :
        /\ pc[f] = "returned"
        /\ outcome[f] = "URLValidationError"
        /\ calls_resolver(url_arg[f])

AcceptedParsed(parsed) ==
    /\ parsed.scheme \in Range(allowed_schemes)
    /\ hostname_of(parsed.netloc) # <<>>
    /\ ~validate_url_blocked(hostname_of(parsed.netloc))

\* C6: every URL the validator accepts has a length of at most the maximum,
\* an allowed scheme, a non-empty hostname, and a hostname without any
\* blocked substring.
C6_AcceptedUrlIsWellFormed ==
    ( fn_valid # Pending /\ fn_valid.ok ) =>
        /\ Len(fn_url) <= max_url_length
        /\ AcceptedParsed(urlparse(fn_url))

\* the reason the first failing check gives, "None" when no check fails
FirstFailureParsed(parsed) ==
    IF FailsParse(parsed) THEN "Invalid URL format"
    ELSE IF FailsScheme(parsed) THEN "URL scheme must be one of"
    ELSE IF FailsHost(parsed) THEN "URL must include a host"
    ELSE IF FailsBlocked(parsed) THEN "Access to host is not allowed"
    ELSE "None"

FirstFailure(u) ==
    IF FailsNonEmpty(u) THEN "URL cannot be empty"
    ELSE IF FailsLength(u) THEN "URL exceeds maximum length"
    ELSE FirstFailureParsed(urlparse(u))

\* C7: validate_url applies its checks in the order non-empty, length, parse,
\* scheme, host present, blocked host, and reports the reason of the first
\* check that fails in this order; the call changes no state.
C7_FirstFailingCheckReported ==
    /\ [] ( fn_valid # Pending =>
               /\ fn_valid.error = FirstFailure(fn_url)
               /\ fn_valid.ok <=> FirstFailure(fn_url) = "None" )
    /\ [][ fn_valid' # fn_valid =>
               UNCHANGED << sessionVars, envVars, clocks, rate_limits, pc, waitVars,
                            attemptVars, limiterObs, fn_url, fn_answer, fn_safe >> ]_vars

\* a URL that fails the scheme check and the blocked-host check was validated
C7_Witness ==
    /\ fn_valid # Pending
    /\ ~FailsNonEmpty(fn_url)
    /\ ~FailsLength(fn_url)
    /\ FailsScheme(urlparse(fn_url))
    /\ FailsBlocked(urlparse(fn_url))

----------------------------------------------------------------------------
(* Properties of the rate limiter.                                          *)

\* C8: of two calls of wait_if_needed for one domain made one after the
\* other, the second completes at least the delay after the first.
C8_SequentialCallsSpaced ==
    \A d \in Domains :
        \A i \in 1..(Len(completions[d]) - 1) :
            completions[d][i + 1] >= completions[d][i] + default_delay

\* the second call for a domain has slept and completed exactly the delay
\* after the first
C8_Witness ==
    \E d \in Domains :
        /\ Len(completions[d]) >= 2
        /\ completions[d][2] = completions[d][1] + default_delay

\* C9: the rate-limit ledger lives as long as the process: an entry is never
\* removed or reset, so the fetches of successive requests to one domain
\* are at least the delay apart.
C9_LedgerEntriesPersist ==
    [][ \A d \in DOMAIN rate_limits :
            /\ d \in DOMAIN rate_limits'
            /\ rate_limits'[d].last_request >= rate_limits[d].last_request ]_vars

\* C10: when wait_if_needed is called concurrently on one ledger, any two
\* calls for one domain complete at least the delay apart, in every
\* interleaving.
C10_ConcurrentCallsSpaced ==
    \A d \in Domains :
        \A i, j \in 1..Len(completions[d]) :
            i < j => completions[d][j] - completions[d][i] >= default_delay

----------------------------------------------------------------------------
(* Properties of the fetch and of the extraction.                          *)

\* the positions of the fetch: _scrape_with_playwright is running
FetchSteps == { "fetch", "page", "content", "close", "parse" }

\* the attempt of flow f has written the time of its own request into the
\* ledger: the entry of its domain exists and is later than the entry the
\* attempt found by at least the delay it had to wait
LedgerUpdatedBy(f) ==
    /\ domain_arg[f] \in DOMAIN rate_limits
    /\ rate_limits[domain_arg[f]].last_request >= StartTime
    /\ domain_arg[f] \in DOMAIN ledger_at_entry[f] =>
          rate_limits[domain_arg[f]].last_request >=
              ledger_at_entry[f][domain_arg[f]].last_request
                  + ledger_at_entry[f][domain_arg[f]].delay

\* C11: when an attempt passes validation and the SSRF guard and its fetch
\* then fails, the attempt has already written the domain's last-request
\* time, and it is reported as a fetch failure (ScrapingError).
C11_FailedFetchCountsAgainstLimit ==
    \A f \in flows :
        /\ pc[f] = "returned" /\ fetches[f] >= 1 /\ outcome[f] # "ok" =>
              outcome[f] = "ScrapingError" /\ LedgerUpdatedBy(f)
        /\ pc[f] = "returned" /\ outcome[f] = "ScrapingError" => fetches[f] >= 1

\* a fetch failed in an attempt that found an entry of its domain in the
\* ledger, left by an earlier attempt
C11_Witness ==
    \E f \in flows :
        /\ pc[f] = "returned"
        /\ outcome[f] = "ScrapingError"
        /\ domain_arg[f] \in DOMAIN ledger_at_entry[f]
        /\ rate_limits[domain_arg[f]].last_request
              > ledger_at_entry[f][domain_arg[f]].last_request

\* C17: extract never fails: for every HTML _parse_html returns a Document,
\* and the field of a missing element or attribute (a <title> that is
\* absent, a <meta> element that is absent or has no content attribute) is
\* the empty string.
C17_ExtractNeverFails ==
    fn_document # NoDocument =>
        /\ fn_document.document
        /\ fn_html.title = "absent" => fn_document.title = ""
        /\ fn_html.description \in { "absent", "no_content" } =>
              fn_document.metadata.description = ""
        /\ fn_html.keywords \in { "absent", "no_content" } =>
              fn_document.metadata.keywords = ""

\* the step of the scrape state machine a position of the code belongs to
StepOf(position, how) ==
    CASE position = "idle"     -> "Idle"
      [] position = "validate" -> "Validating"
      [] position = "ssrf"     -> "SSRF-Checking"
      [] position \in { "wait_time", "wait_read", "wait_missing", "wait_sleep",
                         "wait_stamp", "wait_write" } -> "RateLimiting"
      [] position \in { "fetch", "page", "content", "close" } -> "Fetching"
      [] position = "parse"    -> "Extracting"
      [] position = "returned" -> IF how = "ok" THEN "Ready" ELSE "Failed"

\* the steps that can follow a step
StepsAfter(step) ==
    CASE step = "Idle"          -> { "Validating" }
      [] step = "Validating"    -> { "SSRF-Checking", "Failed" }
      [] step = "SSRF-Checking" -> { "RateLimiting", "Failed" }
      [] step = "RateLimiting"  -> { "Fetching" }
      [] step = "Fetching"      -> { "Extracting", "Failed" }
      [] step = "Extracting"    -> { "Ready" }
      [] step = "Ready"         -> { "Idle" }
      [] step = "Failed"        -> { "Idle" }

\* C18: every scrape attempt runs Validating, SSRF-Checking, RateLimiting,
\* Fetching, Extracting in this order, each at most once, and ends in Ready
\* or Failed; Failed is entered only from Validating, SSRF-Checking or
\* Fetching, never from RateLimiting or Extracting.
C18_StepsInOrder ==
    [][ \A f \in flows :
          StepOf(pc'[f], outcome'[f]) # StepOf(pc[f], outcome[f]) =>
              StepOf(pc'[f], outcome'[f]) \in StepsAfter(StepOf(pc[f], outcome[f])) ]_vars

\* C20: once the browser of a fetch has been launched it is closed before
\* the fetch returns or raises, whichever statement of the try body failed:
\* a browser is open only while the fetch is inside its try statement, and
\* none is open once the scrape attempt has ended.
C20_BrowserClosedOnEveryExit ==
    \A f \in flows : browser[f] = "open" => pc[f] \in { "page", "content", "close" }

\* a fetch whose browser was launched failed after the navigation had
\* contacted the host, and the browser was closed
C20_Witness ==
    \E f \in flows :
        /\ pc[f] = "returned"
        /\ outcome[f] = "ScrapingError"
        /\ html[f] = NoHtml
        /\ contacted[f] # {}
        /\ browser[f] = "closed"

----------------------------------------------------------------------------
(* Properties of the errors of a scrape attempt.                           *)

\* the exceptions scrape_url documents (scraper.py:189-192)
TypedErrors == { "URLValidationError", "SSRFProtectionError", "ScrapingError" }

\* C19: every failure of a scrape attempt reaches the caller of scrape_url
\* as URLValidationError, SSRFProtectionError or ScrapingError and as
\* nothing else; an unexpected error of the resolver inside the SSRF guard
\* is an SSRFProtectionError; and the session handler turns the error into
\* its error message and is idle again, the document, the URL and the chat
\* history of the session being as they were.
C19_FailuresAreTyped ==
    /\ [] ( \A f \in flows :
              pc[f] = "returned" =>
                  /\ outcome[f] \in TypedErrors \cup { "ok" }
                  /\ guard_answer[f] = "error" => outcome[f] = "SSRFProtectionError" )
    /\ [][ \A f \in flows :
              pc[f] = "returned" /\ outcome[f] # "ok" /\ pc'[f] # "returned" =>
                  /\ pc'[f] = "idle"
                  /\ error_message' = ErrorMessageFor(outcome[f])
                  /\ error_message' \in { "Invalid URL", "Security Error",
                                          "Scraping Error" }
                  /\ UNCHANGED << content, chat_history, current_url >> ]_vars

\* the resolver raised an unexpected error inside the SSRF guard and the
\* attempt ended with an SSRFProtectionError
C19_Witness ==
    \E f \in flows :
        /\ pc[f] = "returned"
        /\ guard_answer[f] = "error"
        /\ outcome[f] = "SSRFProtectionError"

----------------------------------------------------------------------------
(* Properties of the session: document, chat history and analysis.         *)

\* C12: after any sequence of scrape, query and clear operations every chat
\* turn of the history was produced against the document that is the
\* content now: the history is cleared whenever the document is replaced or
\* discarded, and it is empty when there is no document.
C12_HistoryOfOneDocument ==
    /\ Len(turn_current) = Len(chat_history)
    /\ \A i \in 1..Len(turn_current) : turn_current[i]
    /\ content = NoDocument => chat_history = <<>>

\* the history holds the summary of the document and two answered queries
C12_Witness ==
    /\ content # NoDocument
    /\ Len(chat_history) = 3
    /\ chat_history[1].query = "System"
    /\ chat_history[3].query = Padded(<<"q">>, max_query_length)

\* C13: when an analysis call fails, with whatever kind of error, the
\* document and the chat history are left as they were: no step of a query
\* changes the document, and only the last step of a query whose analysis
\* succeeded changes the history.
C13_FailedQueryChangesNothing ==
    [][ \A f \in flows :
          /\ pc[f] \in { "generate", "analyzed" } =>
                UNCHANGED << content, chat_history >>
          /\ pc[f] = "answered" =>
                /\ UNCHANGED content
                /\ ~analysis[f].ok => UNCHANGED chat_history ]_vars

\* an analysis failed, its error is shown, and the turn answered before it
\* is still in the history
C13_Witness ==
    /\ \A f \in flows : pc[f] = "idle"
    /\ Len(shown) = 3
    /\ shown[1] = "Analysis Error"
    /\ Len(chat_history) = 2
    /\ chat_history[2].response = "answer"

\* process_query has returned from a call made while the session held no
\* document
AskedWithoutDocument(f) ==
    /\ pc[f] = "idle"
    /\ last_query.submitted
    /\ content = NoDocument

\* C14 as stated: every query submitted while the session holds no document
\* gets the precondition error, and the provider is not called.
C14_EveryQueryGetsPreconditionError ==
    \A f \in flows :
        AskedWithoutDocument(f) =>
            /\ shown = << "Please scrape a URL first!" >>
            /\ provider_calls[f] = 0

\* C14: every valid query submitted while the session holds no document gets
\* the precondition error, an invalid one gets the error of its validation,
\* and in both cases the provider is not called.
C14_ValidQueryGetsPreconditionError ==
    \A f \in flows :
        AskedWithoutDocument(f) =>
            /\ provider_calls[f] = 0
            /\ shown = IF validate_query(last_query.text).ok
                       THEN << "Please scrape a URL first!" >>
                       ELSE << validate_query(last_query.text).error >>

\* a valid query was submitted with no document and got the precondition
\* error
C14_Witness ==
    \E f \in flows :
        /\ AskedWithoutDocument(f)
        /\ validate_query(last_query.text).ok
        /\ shown = << "Please scrape a URL first!" >>

\* the kind of failure a message of ContentAnalysisError stands for
ReportedKind(message) ==
    CASE message = "Content was blocked" -> "blocked-by-safety-filter"
      [] message = "Your query was blocked by content safety filters" ->
            "blocked-by-safety-filter"
      [] message = "Response generation was stopped due to content safety" ->
            "generation-stopped"
      [] message = "Empty response from Gemini API" -> "empty-response"
      [] message = "Failed to analyze content" -> "provider-failure"

\* the kind of failure the provider's behaviour is
FailureKind(behaviour) ==
    CASE behaviour \in { "block_reason", "BlockedPromptException" } ->
            "blocked-by-safety-filter"
      [] behaviour = "StopCandidateException" -> "generation-stopped"
      [] behaviour = "no_text" -> "empty-response"
      [] OTHER -> "provider-failure"

\* C15: analyze reports each failure as the one of four kinds it is: a
\* response with a block reason as blocked-by-safety-filter, a stopped
\* generation as generation-stopped, a response without text as
\* empty-response, and only the other errors as provider-failure.
C15_FailureKindsDistinguished ==
    \A f \in flows :
        pc[f] = "answered" /\ ~analysis[f].ok =>
            ReportedKind(analysis[f].error) = FailureKind(response[f])

\* C16: each analyze call calls the provider at most once: when the call
\* has failed analyze raises without calling the provider again.
C16_OneProviderCall ==
    \A f \in flows :
        /\ provider_calls[f] <= 1
        /\ pc[f] \in { "analyzed", "answered" } => provider_calls[f] = 1

\* analyze has raised after its one call of the provider
C16_Witness ==
    \E f \in flows :
        /\ pc[f] = "answered"
        /\ ~analysis[f].ok
        /\ provider_calls[f] = 1

----------------------------------------------------------------------------
(* Properties of the ledger key, of the context and of the title.          *)

\* the port written in a network location, <<>> when none is written
port_of(netloc) ==
    IF Has(AfterLast(netloc, "@"), "]")
    THEN After(After(AfterLast(netloc, "@"), "]"), ":")
    ELSE After(AfterLast(netloc, "@"), ":")

\* the two URLs name the same host, whatever the case of its letters, and
\* the same port
SameHostAndPort(url1, url2) ==
    /\ hostname_of(urlparse(url1).netloc) = hostname_of(urlparse(url2).netloc)
    /\ port_of(urlparse(url1).netloc) = port_of(urlparse(url2).netloc)

\* the URLs of FnUrls that can reach the rate limiter
RateLimitedUrls == { u \in FnUrls : reaches_rate_limiter(u) }

\* C21: the ledger key of a URL is determined by its host and port only: a
\* URL with the same host and port (differing in user-info, letter case of
\* the host, path or query) gets the same key, and a URL with another host
\* or port another key.
C21_KeyIsHostAndPort ==
    fn_domain # NoDomain =>
        \A u \in RateLimitedUrls :
            SameHostAndPort(fn_url, u) <=> rate_limit_domain(u) = fn_domain

----------------------------------------------------------------------------
(* Properties of one call of the rate limiter.                             *)

\* how long a call that has read the time `now` has to be suspended,
\* computed from the entry of its domain and from nothing else
OwnSuspension(entry, now) ==
    IF now - entry.last_request < entry.delay
    THEN entry.delay - (now - entry.last_request)
    ELSE 0

\* the call of flow f decides in this step whether it sleeps
Decides(f) ==
    /\ pc[f] \in { "wait_read", "wait_missing" }
    /\ pc'[f] \in { "wait_sleep", "wait_stamp" }

\* C22: wait_if_needed(d) reads and writes only the ledger entry of d: a
\* step creates or changes an entry only if a call for that domain is
\* running, and the suspension a call decides on is the one the entry of
\* its own domain gives, whatever the entries of the other domains are.
C22_CallTouchesOwnEntryOnly ==
    [][ /\ \A d \in DOMAIN rate_limits' :
              d \notin DOMAIN rate_limits \/ rate_limits'[d] # rate_limits[d] =>
                  \E f \in flows :
                      pc[f] \in { "wait_missing", "wait_write" } /\ domain_arg[f] = d
        /\ \A f \in flows :
              Decides(f) =>
                  wake_at'[f] - monotonic =
                      OwnSuspension(rate_limits'[domain_arg[f]], current_time[f]) ]_vars

\* a first call for one domain is not suspended although the other domain
\* was requested at this very time
C22_Witness ==
    \E f \in flows, d \in DOMAIN rate_limits :
        /\ pc[f] = "wait_stamp"
        /\ d # domain_arg[f]
        /\ rate_limits[d].last_request = current_time[f]
        /\ domain_arg[f] \in DOMAIN rate_limits
        /\ rate_limits[domain_arg[f]].last_request = 0
        /\ wake_at[f] = monotonic

\* C23: in every reachable ledger state and for every clock reading a call
\* of wait_if_needed suspends its caller for at most the delay of the
\* domain, and when it returns the last-request time of the domain is the
\* clock value read after the suspension.
C23_SuspendsAtMostDelay ==
    /\ [][ \A f \in flows :
             (Decides(f) /\ pc'[f] = "wait_sleep") =>
                 wake_at'[f] - monotonic <= rate_limits'[domain_arg[f]].delay ]_vars
    /\ [][ \A f \in flows :
             (pc[f] = "wait_write" /\ pc'[f] # "wait_write") =>
                 rate_limits'[domain_arg[f]].last_request = request_time[f] ]_vars

\* s is the sequence of the first n elements of t, or all of t when t has
\* fewer than n
FirstOf(s, t, n) ==
    /\ Len(s) <= n
    /\ Len(s) <= Len(t)
    /\ Len(s) = n \/ Len(s) = Len(t)
    /\ \A i \in 1..Len(s) : s[i] = t[i]

\* C24: the context analyze builds holds at most the first
\* max_content_length characters of the text of the document and the texts
\* of at most max_tables tables, taken from the front of the tables in
\* order, for every document and every non-negative value of the two limits.
C24_ContextIsBounded ==
    fn_context.built =>
        /\ FirstOf(fn_context.summary, fn_document.text, fn_limits.max_content_length)
        /\ FirstOf(fn_context.tables.texts, fn_document.tables, fn_limits.max_tables)

\* a context was built of a document with more text and more tables than
\* the limits allow, and both were cut
C24_Witness ==
    /\ fn_context.built
    /\ fn_limits.max_content_length > 0
    /\ fn_limits.max_tables > 0
    /\ Len(fn_document.text) > fn_limits.max_content_length
    /\ Len(fn_document.tables) > fn_limits.max_tables
    /\ Len(fn_context.summary) = fn_limits.max_content_length
    /\ Len(fn_context.tables.texts) = fn_limits.max_tables

\* C25: the title of every Document that _parse_html returns is a string:
\* the text of the title element when it has one, and the empty string when
\* the element is absent or holds no single text (an empty title, or one
\* with nested elements); it is never None.
C25_TitleIsAString ==
    fn_document.document =>
        /\ fn_document.title # "None"
        /\ fn_html.title \in { "absent", "markup" } => fn_document.title = ""
        /\ fn_html.title \notin { "absent", "markup" } => fn_document.title = fn_html.title

\* the positions of process_query and analyze
QueryPositions == { "generate", "analyzed", "answered" }

\* flow f takes a step of a scrape request that does not end it with a document
InFailingScrape(f) ==
    /\ \/ pc[f] = "idle" /\ pc'[f] = "validate"
       \/ pc[f] = "idle" /\ error_message' # error_message
       \/ pc[f] \notin QueryPositions \cup { "idle" }
    /\ ~(pc[f] = "returned" /\ outcome[f] = "ok")

\* flow f begins a scrape request for a URL that validate_url rejects, so
\* that the request is bound to fail
BeginsFailingScrape(f) ==
    /\ pc[f] = "idle"
    /\ pc'[f] = "validate"
    /\ ~validate_url(url_arg'[f]).ok

\* a step of flow f in a session that holds a document: a request that does
\* not end with a document leaves the document, its URL and the chat history
\* as they were and stores the error message of the failure; a valid query
\* asked after the failure goes to the provider with the document the
\* session still holds, and its answer is appended to the history that was
\* kept
DocumentKept(f) ==
    /\ (content # NoDocument /\ InFailingScrape(f)) =>
          /\ content' = content
          /\ current_url' = current_url
          /\ chat_history' = chat_history
    /\ (content # NoDocument /\ pc[f] = "returned" /\ pc'[f] = "idle"
          /\ outcome[f] # "ok") =>
          error_message' = ErrorMessageFor(outcome[f])
    /\ (content # NoDocument /\ error_message # "None") =>
          /\ (pc[f] = "idle" /\ last_query' # last_query /\ last_query'.submitted
                /\ validate_query(last_query'.text).ok) =>
                   (pc'[f] = "generate" /\ content' = content)
          /\ pc[f] \in QueryPositions => content' = content
          /\ (pc[f] = "answered" /\ pc'[f] = "idle" /\ analysis[f].ok) =>
                chat_history' = Append(chat_history,
                                       [ query |-> last_query.text,
                                         response |-> analysis[f].text ])

\* the step with which the handler begins a request that is bound to fail
\* sets nothing of the session: the scraper it stores is the one it stored
\* before, with the ledger that scraper had
ScraperKept(f) ==
    (content # NoDocument /\ BeginsFailingScrape(f)) =>
        /\ scraper' = scraper
        /\ rate_limits' = rate_limits

\* the part of C26 about the document: holds in every step of the session
FailedScrapeKeepsDocument == [][ \A f \in flows : DocumentKept(f) ]_vars

\* C26: a scrape request that fails in a session that holds a document
\* leaves the document, its URL and the chat history as they were and sets
\* only the error message: the scraper the session stores and its ledger
\* are as they were too; a valid query asked after the failure goes to the
\* provider with the document the session still holds, and its answer is
\* appended to the history that was kept.
C26_FailedScrapeSetsOnlyMessage ==
    [][ \A f \in flows : DocumentKept(f) /\ ScraperKept(f) ]_vars

\* after a failed scrape request in a session with a document, a query got
\* its answer and the document, its URL and the history are still there
FailedScrapeThenAnswered ==
    /\ content # NoDocument
    /\ current_url # <<>>
    /\ chat_history # <<>>
    /\ error_message # "None"
    /\ \E f \in flows : pc[f] = "answered" /\ analysis[f].ok

\* the query submitted last is empty, of white space only or longer than
\* max_query_length
RejectedQuery(query) ==
    /\ query.submitted
    /\ \/ IsBlank(query.text)
       \/ Len(query.text) > max_query_length

\* C27: a query that is empty, only white space or longer than the maximum
\* query length is rejected before anything else is checked: the error of
\* its validation is reported whether or not a document is present, the
\* provider is not called, and no turn is appended to the history.
C27_InvalidQueryRejectedFirst ==
    /\ [](\A f \in flows :
            (pc[f] = "idle" /\ RejectedQuery(last_query)) =>
                /\ shown = << validate_query(last_query.text).error >>
                /\ shown # << "Please scrape a URL first!" >>
                /\ provider_calls[f] = 0)
    /\ [][ \A f \in flows :
             (pc[f] = "idle" /\ RejectedQuery(last_query')) =>
                 /\ pc'[f] = "idle"
                 /\ chat_history' = chat_history
                 /\ provider_calls'[f] = 0
         ]_vars

\* a query of white space other than the space (a tab, CR LF, a form feed
\* and a no-break space) was rejected as empty in a session without a
\* document
C27_Witness ==
    /\ RejectedQuery(last_query)
    /\ last_query.text # <<>>
    /\ IsBlank(last_query.text)
    /\ \A i \in 1..Len(last_query.text) : last_query.text[i] # " "
    /\ content = NoDocument
    /\ shown = << "Query cannot be empty" >>

\* C28: in every state of the session, when a document is present a scraper
\* is present too: the document is stored only after the scraper, and clear
\* discards the document and keeps the scraper.  So no query ends with
\* 'Scraper not initialized'.
C28_DocumentImpliesScraper ==
    /\ content # NoDocument => scraper # "None"
    /\ shown # << "Scraper not initialized. Please scrape a URL first!" >>

\* the session was cleared after a scrape: the document is gone and the
\* scraper is still there
C28_Witness ==
    /\ scraper # "None"
    /\ content = NoDocument
    /\ error_message = "None"
    /\ \A f \in flows : pc[f] = "idle"

====
